---------------------------- MODULE Spec2Model ----------------------------
(***************************************************************************)
(* A model of the vibebox VM supervisor (src/src/vm_manager.rs) and of the  *)
(* VM run it drives (src/src/vm.rs, src/src/instance.rs):                  *)
(*                                                                         *)
(*   - manager_event_loop, the reference-counted shutdown state machine,   *)
(*     with explicit time (milliseconds);                                  *)
(*   - the accept thread and the per-connection threads of                 *)
(*     run_manager_with, which feed the event loop;                        *)
(*   - the start-up protocol: ensure_manager (client side, vm.lock) and    *)
(*     ensure_pid_file / run_manager_with (supervisor side, vm.pid and     *)
(*     vm.sock);                                                           *)
(*   - the guest-output hook, the OutputMonitor, the login-action thread   *)
(*     and the run loop of run_vm_with_io;                                 *)
(*   - the files: instance.toml, instance.raw, default.raw, and the        *)
(*     session index of src/src/session_manager.rs.                        *)
(*                                                                         *)
(* The specifications share the variables; each leaves at rest the parts   *)
(* it does not use:                                                        *)
(*   LoopSpec      the event loop fed by a harness, as the unit tests of   *)
(*                 vm_manager.rs feed it (any sequence of events);         *)
(*   Spec          one supervisor process serving clients on its socket;   *)
(*   StatusSpec    the same supervisor with the status broadcasts of the   *)
(*                 VM run, without the clock;                              *)
(*   LiveSpec      Spec with the fairness of its threads;                  *)
(*   StartSpec     several ensure_manager invocations and the supervisors  *)
(*                 they spawn, racing on one project root;                 *)
(*   StartLiveSpec StartSpec with the fairness of its processes;           *)
(*   HookSpec      the guest-output hook fed with lines of guest output;   *)
(*   MonitorSpec   the OutputMonitor and one waiting thread;               *)
(*   LoginSpec     a VM run with the login list run_vm_with_io builds;     *)
(*   FsSpec        the supervisor process and a client on instance.toml;   *)
(*   DiskSpec      ensure_instance_disk over the starts of an instance;    *)
(*   ProvisionSpec ensure_default_image and its provisioning run.          *)
(*   MountSpec     rewrite_mount_spec over the mount specs of a run;       *)
(*   IoLiveSpec    the stdin, stdout and mux threads of a VM run and       *)
(*                 IoContext::shutdown, with the fairness of the threads;  *)
(*   SessSpec      the session index of SessionManager;                    *)
(*   SpawnSpec     StartSpec with a spawn of the supervisor that fails.    *)
(*                                                                         *)
(* An Option<T> of the source is a set with at most one element.           *)
(***************************************************************************)
EXTENDS Integers, Sequences, FiniteSets, TLC

\* ------------------------------------------------------------------ bounds

\* The clock of LoopSpec stops after this many steps of TimeStep.
MaxTicks == 6
\* The clock of Spec stops after this many steps of TimeStep.
MaxSupTicks == 3
\* The harness of LoopSpec sends at most this many events.
MaxEvents == 4
\* Connections one supervisor accepts in Spec.
MaxConns == 2
\* Status broadcasts of the VM run in StatusSpec.
MaxBroadcasts == 1
\* Concurrent ensure_manager invocations in StartSpec.
MaxInvokers == 2
\* In LiveSpec the clients connect and close during the first steps of the
\* clock only, this many; the clock runs on for the longest shutdown.
MaxClientTicks == 1
\* the largest read of guest output handed to the output hook
MaxChunk == 12
\* the largest push of guest output into the OutputMonitor
MaxPush == 3
\* failed connects ensure_manager's poll loop sleeps after before the 10 s
\* are over (100 of 100 ms in the program)
MaxPolls == 2

\* --------------------------------------------------------------- constants

SHUTDOWN_RETRY_MS == 500
\* the value of test builds, the one the unit tests of the loop run with
HARD_SHUTDOWN_TIMEOUT_MS == 1000
\* Duration::from_secs(1), the receive timeout when no deadline is set
IDLE_POLL_MS == 1000

POWEROFF == "systemctl poweroff\n"

\* The clock advances in steps of one retry period.
TimeStep == SHUTDOWN_RETRY_MS
MaxTime == MaxTicks * TimeStep
MaxSupTime == MaxSupTicks * TimeStep
MaxClientTime == MaxClientTicks * TimeStep
\* the longest shutdown: the grace period, a first attempt, the command sent
\* on the last retry before the hard deadline, the hard deadline after it
MaxLiveTime == MaxClientTime + TimeStep + 2 * HARD_SHUTDOWN_TIMEOUT_MS

\* auto_shutdown_ms as configured: 0 (clamped to 1 ms), one step, two steps.
AutoShutdownChoices == {0, TimeStep, 2 * TimeStep}
\* auto_shutdown_ms of the supervisor of Spec
SupAutoShutdownChoices == {TimeStep}

\* ------------------------------------------------------------------ Option

None == {}
Some(x) == {x}
IsSome(o) == o # {}
Unwrap(o) == CHOOSE x \in o : TRUE

Max(a, b) == IF a >= b THEN a ELSE b

VARIABLES
    \* manager_event_loop
    ref_count, shutdown_deadline, shutdown_sent, hard_deadline,
    loop_state,        \* "running" | "returned" | "forced"
    wake,              \* the instant at which recv_timeout gives up
    auto_shutdown_ms,
    event_q,           \* the mpsc channel of ManagerEvent
    chan_open,         \* some Sender of the channel is still alive
    vm_input_tx,       \* "None" | "Ready" | "Closed" (receiver dropped)
    vm_input,          \* what was sent on the VM input channel
    now,
    \* observations of the event loop
    last_event,        \* the arm of the match the loop ran last
    prev,              \* the loop's variables, and the time, before that arm
    zero_since,        \* since when ref_count has been 0 without a break
    dec_at,            \* when the Dec that left ref_count = 0 was processed
    write_at,          \* when poweroff was sent since the last Inc
    write_dec,         \* dec_at as it was when that poweroff was sent
    episode_writes,    \* poweroff commands sent since the last Inc
    deferred,          \* an attempt since the last Inc found no usable writer
    attempt_at,        \* when the first attempt since the last Inc was made
    cancelled,         \* an Inc was processed while a grace timer was pending
    sent_events,       \* events sent by the harness
    recv_inc, recv_dec,\* per connection: Inc / Dec events the loop received
    \* run_manager_with: the accept thread, the connection threads, the VM run
    conn_pc,           \* per connection, where its thread is
    client_open,       \* the client's end of the connection is open
    conn_pid,          \* what read_client_pid returned
    conn_fd,           \* the descriptors of the stream and of its clone
    backlog,           \* connections the listener has not accepted yet
    accept_pc,         \* "idle" | "enroll"
    accept_snap,       \* latest_status_snapshot of the accept thread, as last taken
    clients,           \* the writers, in push order
    fds,               \* descriptors open in the supervisor
    latest_status,
    out,               \* per connection, the lines written to the client
    bc_pc,             \* "idle" | "fanout": a broadcast between its two locks
    broadcasts,        \* status broadcasts of the VM run so far
    main_pc,           \* where the main thread of the supervisor is
    vm_err,            \* the error the VM run returned
    \* start-up: the files of the instance directory and the processes
    pid_file,          \* vm.pid: the pid written in it, None when absent
    sock_file,         \* vm.sock: the supervisor that bound it (0: nobody
                       \* alive), None when absent
    lock_file,         \* vm.lock: the pid written in it, None when absent
    inv_pc,            \* per ensure_manager invocation, where it is
    inv_lock,          \* lock_file.is_some() of the invocation
    sup_pc,            \* per supervisor process, where it is
    sup_guard,         \* the supervisor wrote vm.pid and holds a PidFileGuard
    \* observation of the accept thread
    pending_at_accept, \* per connection: a shutdown was scheduled and the
                       \* command not yet sent when the connection was accepted
    \* what run_manager_with returned: <<>> while it runs
    run_result,
    \* per ensure_manager invocation: the failed connects of its poll loop
    polls,
    \* the guest-output hook of spawn_manager_io
    hook_text,         \* the guest output of the run, as pieces of text
    hook_pos,          \* how much of it the reader thread has handed over
    line_buf,          \* line_buf of the hook
    cfg_vm_ipv4,       \* config.vm_ipv4 of the shared InstanceConfig
    toml_vm_ipv4,      \* vm_ipv4 in .vibebox/instance.toml
    toml_writes,       \* writes of .vibebox/instance.toml that succeeded
    write_calls,       \* calls of write_instance_config by the hook
    \* the VM run: OutputMonitor, the login-action thread, the run loop
    guest_text,        \* what the guest prints during the run, as pieces
    guest_pos,         \* how much of it the reader thread has pushed
    mon_buffer,        \* OutputMonitor.buffer
    actions,           \* the list handed to spawn_login_actions_thread
    act_i,             \* index of the action the thread is at
    th_pc,             \* "next" | "check" | "waiting" | "returned"
    expired,           \* the timeout of the current wait has elapsed
    notified,          \* the condvar was notified since the wait began
    wait_result,       \* what the last wait returned, <<>> before any
    vm_output,         \* the VmOutput messages sent, in order
    vm_output_read,    \* how many of them the run loop received
    input_q,           \* the VmInput::Bytes sent on input_tx, in order
    vm_state,          \* "Running" | "Stopped"
    run_pc,            \* run loop: "loop" | "join" | "done"
    stop_requested,    \* the run loop asked the VM to stop
    exit_result,       \* exit_result of run_vm_with_io
    contained,         \* the buffer held a needle of the current wait at
                       \* some point since the wait began
    \* the files of the instance directory and of the cache, and the
    \* processes that read and write them
    toml_exists,       \* .vibebox/instance.toml exists
    toml_lines,        \* its content, a sequence of <<key, value>> lines
    toml_history,      \* the complete documents the file has been given
    f_pc,              \* per process, where it is
    f_cfg,             \* per process, the InstanceConfig it holds
    f_raw,             \* per process, what it read from the file last
    f_next,            \* per process, where it goes on after its write
    f_polls,           \* per process, polls of wait_for_vm_ipv4 so far
    f_gen,             \* per process, identifiers generated so far
    \* the disk images
    instance_raw,      \* .vibebox/instance.raw: None, or Some(its blocks)
    template_raw,      \* the blocks of the image an instance disk is made of
    disk_target,       \* target_bytes of the last ensure_instance_disk
    disk_result,       \* what that call returned
    disk_warned,       \* that call logged the size warning
    disk_calls,        \* calls of ensure_instance_disk so far
    default_raw,       \* default.raw of the cache: None, or Some(content)
    default_at_call,   \* default_raw when ensure_default_image was called
    prov_pc,           \* ensure_default_image: "idle" | "call" | "running"
                       \* | "returned"
    prov_result,       \* what ensure_default_image returned
    \* the translation of a mount spec
    mount_spec,        \* the spec given, a sequence of characters
    mount_user,        \* ssh_user
    mount_out,         \* <<>>, or what rewrite_mount_spec returned
    \* the I/O threads of a VM run and IoContext::shutdown
    io_wakeup,         \* bytes written to the wakeup pipe and not read
    io_forward_input,  \* IoControl.forward_input
    io_forward_output, \* IoControl.forward_output
    io_raw_mode,       \* raw_guard holds a guard
    io_stdin,          \* reads of stdin that have data waiting
    io_vm_output,      \* reads of the guest output that have data waiting
    io_input_q,        \* the VmInput channel
    stdin_pc,          \* stdin forwarder: "top" | "poll_wakeup" | "poll"
                       \* | "ready" | "exited"
    stdout_pc,         \* guest-output reader: "poll" | "ready" | "exited"
    mux_pc,            \* guest-input writer: "recv" | "write" | "exited"
    sd_pc,             \* shutdown: "idle" | "send" | "wake" | "join_stdin"
                       \* | "join_stdout" | "join_mux" | "returned"
    io_events,         \* what the surroundings did so far, counted
    \* the session index (session_manager.rs)
    sess_index,        \* sessions.toml: the records, in the order of the file
    sess_dirs,         \* the directories whose .vibebox directory exists
    sess_next_id,      \* the next Uuid::now_v7()
    sess_now,          \* OffsetDateTime::now_utc(), counted in operations
    sess_last,         \* the last call: what it was, what it found and
                       \* what it returned
    sess_incs,         \* per session id, the increments that returned Ok
    sess_decs          \* per session id, the decrements that returned Ok

loopVars == <<ref_count, shutdown_deadline, shutdown_sent, hard_deadline,
              loop_state, wake, auto_shutdown_ms, event_q, chan_open,
              vm_input_tx, vm_input, now>>
obsVars == <<last_event, prev, zero_since, dec_at, write_at, write_dec,
             episode_writes, deferred, attempt_at, cancelled, sent_events,
             recv_inc, recv_dec>>

supVars == <<conn_pc, client_open, conn_pid, conn_fd,
             backlog, accept_pc, accept_snap, clients, fds, latest_status,
             out, bc_pc, broadcasts, main_pc, vm_err>>

startVars == <<pid_file, sock_file, lock_file, inv_pc, inv_lock, sup_pc,
               sup_guard>>

\* the supervisor and its start-up
mgrVars == <<loopVars, obsVars, supVars, startVars, pending_at_accept,
            run_result, polls>>

hookVars == <<hook_text, hook_pos, line_buf, cfg_vm_ipv4, toml_vm_ipv4,
             toml_writes, write_calls>>

monVars == <<guest_text, guest_pos, mon_buffer, actions, act_i, th_pc,
            expired, notified, wait_result, vm_output, vm_output_read,
            input_q, vm_state, run_pc, stop_requested, exit_result,
            contained>>

\* the parts of the VM run that have a model of their own
\* the files of the instance directory and the processes that use them
fsVars == <<toml_exists, toml_lines, toml_history, f_pc, f_cfg, f_raw,
           f_next, f_polls, f_gen>>

\* ensure_instance_disk
diskVars == <<instance_raw, template_raw, disk_target, disk_result,
             disk_warned, disk_calls>>

\* ensure_default_image
provVars == <<default_raw, default_at_call, prov_pc, prov_result>>

\* rewrite_mount_spec
mountVars == <<mount_spec, mount_user, mount_out>>

\* spawn_vm_io_with_hooks and IoContext::shutdown
ioVars == <<io_wakeup, io_forward_input, io_forward_output, io_raw_mode,
           io_stdin, io_vm_output, io_input_q, stdin_pc, stdout_pc, mux_pc,
           sd_pc, io_events>>

\* SessionManager and what its callers see
sessVars == <<sess_index, sess_dirs, sess_next_id, sess_now, sess_last,
             sess_incs, sess_decs>>

vmVars == <<hookVars, monVars, fsVars, diskVars, provVars, mountVars, ioVars,
           sessVars>>

vars == <<mgrVars, vmVars>>

Conns == 1 .. MaxConns
\* the ensure_manager invocations; invocation e spawns supervisor e
Invokers == 1 .. MaxInvokers

\* ------------------------------------------------------- manager_event_loop

\* auto_shutdown_ms.max(1)
grace == Max(auto_shutdown_ms, 1)
hard_timeout == HARD_SHUTDOWN_TIMEOUT_MS

\* mutant: a subtraction that does not saturate
plain_sub(a, b) == a - b
saturating_sub(a, b) == IF a >= b THEN a - b ELSE 0
\* usize::MAX is out of reach of any run of the model
saturating_add(a, b) == a + b
\* Instant::saturating_duration_since
saturating_duration_since(later, earlier) == saturating_sub(later, earlier)

\* the receive timeout computed at the top of the loop
recv_timeout(sd, hd, t) ==
    IF IsSome(sd) /\ IsSome(hd)
    THEN saturating_duration_since(
             IF Unwrap(sd) <= Unwrap(hd) THEN Unwrap(sd) ELSE Unwrap(hd), t)
    ELSE IF IsSome(sd) THEN saturating_duration_since(Unwrap(sd), t)
    ELSE IF IsSome(hd) THEN saturating_duration_since(Unwrap(hd), t)
    ELSE IDLE_POLL_MS

Event(k, p, c) == [kind |-> k, pid |-> p, conn |-> c]

LoopRunning == loop_state = "running"

\* the loop's variables as an arm of the match finds them
Snapshot == [ref_count |-> ref_count, shutdown_deadline |-> shutdown_deadline,
             shutdown_sent |-> shutdown_sent, hard_deadline |-> hard_deadline,
             loop_state |-> loop_state, at |-> now]

\* mutant: the Inc arm leaves hard_deadline as it is
IncKeepsHardDeadline == hard_deadline

\* mutant: the Inc arm leaves shutdown_deadline as it is
IncKeepsShutdownDeadline == shutdown_deadline

\* mutant: the Inc arm leaves shutdown_sent as it is
IncKeepsShutdownSent == shutdown_sent

\* what the Inc arm assigns
IncClearsShutdownDeadline == None
IncClearsShutdownSent == FALSE
IncClearsHardDeadline == None

\* Ok(ManagerEvent::Inc(pid))
HandleInc ==
    /\ LoopRunning
    /\ event_q # <<>>
    /\ Head(event_q).kind = "Inc"
    /\ event_q' = Tail(event_q)
    /\ ref_count' = saturating_add(ref_count, 1)
    /\ shutdown_deadline' = IncClearsShutdownDeadline
    /\ shutdown_sent' = IncClearsShutdownSent
    /\ hard_deadline' = IncClearsHardDeadline
    /\ wake' = now + recv_timeout(shutdown_deadline', hard_deadline', now)
    /\ last_event' = "Inc"
    /\ prev' = Snapshot
    /\ zero_since' = None
    /\ cancelled' = (IsSome(shutdown_deadline) /\ ~shutdown_sent)
    /\ dec_at' = None
    /\ write_at' = None
    /\ write_dec' = None
    /\ episode_writes' = 0
    /\ deferred' = FALSE
    /\ attempt_at' = None
    /\ recv_inc' = IF Head(event_q).conn \in Conns
                   THEN [recv_inc EXCEPT ![Head(event_q).conn] = @ + 1]
                   ELSE recv_inc
    /\ UNCHANGED <<loop_state, auto_shutdown_ms, chan_open, vm_input_tx,
                   vm_input, now, sent_events, recv_dec>>
    /\ UNCHANGED <<supVars, startVars>>
    /\ UNCHANGED <<pending_at_accept, run_result, polls>>
    /\ UNCHANGED vmVars

\* mutant: the Dec arm schedules nothing
DecKeepsDeadline(old, t) == old

\* mutant: the Dec arm schedules the shutdown with no grace
DecDeadlineNoGrace(old, t) == Some(t)

\* the deadline the Dec arm schedules when ref_count reached 0
DecDeadline(old, t) == Some(t + grace)

\* Ok(ManagerEvent::Dec(pid))
HandleDec ==
    /\ LoopRunning
    /\ event_q # <<>>
    /\ Head(event_q).kind = "Dec"
    /\ event_q' = Tail(event_q)
    /\ ref_count' = saturating_sub(ref_count, 1)
    /\ shutdown_deadline' = IF ref_count' = 0
                            THEN DecDeadline(shutdown_deadline, now)
                            ELSE shutdown_deadline
    /\ wake' = now + recv_timeout(shutdown_deadline', hard_deadline, now)
    /\ last_event' = "Dec"
    /\ prev' = Snapshot
    /\ zero_since' = IF ref_count' = 0 /\ zero_since = None
                     THEN Some(now) ELSE zero_since
    /\ dec_at' = IF ref_count' = 0 THEN Some(now) ELSE dec_at
    /\ recv_dec' = IF Head(event_q).conn \in Conns
                   THEN [recv_dec EXCEPT ![Head(event_q).conn] = @ + 1]
                   ELSE recv_dec
    /\ UNCHANGED <<shutdown_sent, hard_deadline, loop_state, auto_shutdown_ms,
                   chan_open, vm_input_tx, vm_input, now, write_at, write_dec,
                   episode_writes, deferred, attempt_at, cancelled,
                   sent_events, recv_inc>>
    /\ UNCHANGED <<supVars, startVars>>
    /\ UNCHANGED <<pending_at_accept, run_result, polls>>
    /\ UNCHANGED vmVars

\* Ok(ManagerEvent::VmExited(err)): break
HandleVmExited ==
    /\ LoopRunning
    /\ event_q # <<>>
    /\ Head(event_q).kind = "VmExited"
    /\ event_q' = Tail(event_q)
    /\ loop_state' = "returned"
    /\ last_event' = "VmExited"
    /\ prev' = Snapshot
    /\ UNCHANGED <<ref_count, shutdown_deadline, shutdown_sent, hard_deadline,
                   wake, auto_shutdown_ms, chan_open, vm_input_tx, vm_input,
                   now, zero_since, dec_at, write_at, write_dec,
                   episode_writes, deferred, attempt_at, cancelled,
                   sent_events, recv_inc, recv_dec>>
    /\ UNCHANGED <<supVars, startVars>>
    /\ UNCHANGED <<pending_at_accept, run_result, polls>>
    /\ UNCHANGED vmVars

\* Err(RecvTimeoutError::Disconnected): break
HandleDisconnected ==
    /\ LoopRunning
    /\ event_q = <<>>
    /\ ~chan_open
    /\ loop_state' = "returned"
    /\ last_event' = "Disconnected"
    /\ prev' = Snapshot
    /\ UNCHANGED <<ref_count, shutdown_deadline, shutdown_sent, hard_deadline,
                   wake, auto_shutdown_ms, event_q, chan_open, vm_input_tx,
                   vm_input, now, zero_since, dec_at, write_at, write_dec,
                   episode_writes, deferred, attempt_at, cancelled,
                   sent_events, recv_inc, recv_dec>>
    /\ UNCHANGED <<supVars, startVars>>
    /\ UNCHANGED <<pending_at_accept, run_result, polls>>
    /\ UNCHANGED vmVars

\* the first `if` of the Timeout arm is taken
ShutdownDue ==
    /\ IsSome(shutdown_deadline)
    /\ now >= Unwrap(shutdown_deadline)
    /\ ~shutdown_sent

\* mutant: the loop took its copy of the (absent) writer when it started
SendWithStartupWriter == FALSE

\* tx.send(..) on the cloned sender succeeds
SendSucceeds == vm_input_tx = "Ready"

\* mutant: a deferred attempt does not arm hard_deadline
HardOnlyWhenSent(sent) ==
    IF sent THEN Some(now + hard_timeout) ELSE hard_deadline

\* mutant: every attempt, deferred or not, re-arms hard_deadline
HardRearmedOnRetry(sent) == Some(now + hard_timeout)

\* hard_deadline after the first `if` of the Timeout arm
HardAfterAttempt(sent) ==
    IF sent THEN Some(now + hard_timeout)
    ELSE IF hard_deadline = None THEN Some(now + hard_timeout)
    ELSE hard_deadline

\* mutant: a deferred attempt schedules no retry
AttemptNoRetry(sent) ==
    [shutdown_deadline |-> None,
     shutdown_sent     |-> IF sent THEN TRUE ELSE shutdown_sent,
     hard_deadline     |-> HardAfterAttempt(sent)]

\* mutant: a successful send is handled like a deferred one
AttemptForgetsSent(sent) ==
    [shutdown_deadline |-> Some(now + SHUTDOWN_RETRY_MS),
     shutdown_sent     |-> shutdown_sent,
     hard_deadline     |-> IF hard_deadline = None
                           THEN Some(now + hard_timeout)
                           ELSE hard_deadline]

\* mutant: a deferred attempt leaves shutdown_deadline where it was
AttemptKeepsDeadline(sent) ==
    [shutdown_deadline |-> IF sent THEN None ELSE shutdown_deadline,
     shutdown_sent     |-> IF sent THEN TRUE ELSE shutdown_sent,
     hard_deadline     |-> HardAfterAttempt(sent)]

\* mutant: a deferred attempt is retried after the idle poll interval
AttemptRetriesLate(sent) ==
    [shutdown_deadline |-> IF sent THEN None
                           ELSE Some(now + IDLE_POLL_MS),
     shutdown_sent     |-> IF sent THEN TRUE ELSE shutdown_sent,
     hard_deadline     |-> HardAfterAttempt(sent)]

\* what the first `if` of the Timeout arm leaves, the command sent or not
Attempt(sent) ==
    [shutdown_deadline |-> IF sent THEN None
                           ELSE Some(now + SHUTDOWN_RETRY_MS),
     shutdown_sent     |-> IF sent THEN TRUE ELSE shutdown_sent,
     hard_deadline     |-> HardAfterAttempt(sent)]

\* mutant: the forced exit waits for the command to have been sent
ForceExitOnlyWhenSent(rc, hd, ss) ==
    /\ rc = 0
    /\ IsSome(hd)
    /\ now >= Unwrap(hd)
    /\ ss

\* the second `if` of the Timeout arm, on the values the first one left
ForceExitDue(rc, hd, ss) ==
    /\ rc = 0
    /\ IsSome(hd)
    /\ now >= Unwrap(hd)

\* Err(RecvTimeoutError::Timeout)
HandleTimeout ==
    /\ LoopRunning
    /\ event_q = <<>>
    /\ chan_open
    /\ now >= wake
    /\ LET due  == ShutdownDue
           sent == due /\ SendSucceeds
           after == IF due THEN Attempt(sent)
                    ELSE [shutdown_deadline |-> shutdown_deadline,
                          shutdown_sent     |-> shutdown_sent,
                          hard_deadline     |-> hard_deadline]
       IN  /\ hard_deadline' = after.hard_deadline
           /\ shutdown_sent' = after.shutdown_sent
           /\ shutdown_deadline' = after.shutdown_deadline
           /\ vm_input' = IF sent THEN Append(vm_input, POWEROFF) ELSE vm_input
           /\ loop_state' = IF ForceExitDue(ref_count, after.hard_deadline,
                                            after.shutdown_sent)
                            THEN "forced" ELSE loop_state
           /\ write_at' = IF sent THEN Some(now) ELSE write_at
           /\ write_dec' = IF sent THEN dec_at ELSE write_dec
           /\ episode_writes' = IF sent THEN episode_writes + 1
                                ELSE episode_writes
           /\ deferred' = IF due /\ ~sent THEN TRUE ELSE deferred
           /\ attempt_at' = IF due /\ attempt_at = None THEN Some(now)
                            ELSE attempt_at
    /\ wake' = now + recv_timeout(shutdown_deadline', hard_deadline', now)
    /\ last_event' = "Timeout"
    /\ prev' = Snapshot
    /\ UNCHANGED <<ref_count, auto_shutdown_ms, event_q, chan_open,
                   vm_input_tx, now, zero_since, dec_at, cancelled,
                   sent_events, recv_inc, recv_dec>>
    /\ UNCHANGED <<supVars, startVars>>
    /\ UNCHANGED <<pending_at_accept, run_result, polls>>
    /\ UNCHANGED vmVars

\* one iteration of the loop
LoopStep ==
    \/ HandleInc
    \/ HandleDec
    \/ HandleVmExited
    \/ HandleDisconnected
    \/ HandleTimeout

\* ------------------------------------------------------------------- clock

\* The loop thread is scheduled at once: a queued event, or a timeout that
\* has something to do, is handled before the clock advances.
LoopUrgent ==
    /\ LoopRunning
    /\ \/ event_q # <<>>
       \/ ~chan_open
       \/ /\ now >= wake
          /\ ShutdownDue \/ ForceExitDue(ref_count, hard_deadline, shutdown_sent)

Tick(horizon) ==
    /\ now < horizon
    /\ LoopRunning
    /\ ~LoopUrgent
    /\ now' = now + TimeStep
    /\ UNCHANGED <<ref_count, shutdown_deadline, shutdown_sent, hard_deadline,
                   loop_state, wake, auto_shutdown_ms, event_q, chan_open,
                   vm_input_tx, vm_input>>
    /\ UNCHANGED obsVars
    /\ UNCHANGED <<supVars, startVars>>
    /\ UNCHANGED <<pending_at_accept, run_result, polls>>
    /\ UNCHANGED vmVars

\* ---------------------------------------------------- the unit-test harness

\* event_tx.send(ManagerEvent::..) of the tests
HarnessSend(k) ==
    /\ chan_open
    /\ sent_events < MaxEvents
    /\ event_q' = Append(event_q, Event(k, None, 0))
    /\ sent_events' = sent_events + 1
    /\ UNCHANGED <<ref_count, shutdown_deadline, shutdown_sent, hard_deadline,
                   loop_state, wake, auto_shutdown_ms, chan_open, vm_input_tx,
                   vm_input, now, last_event, prev, zero_since, dec_at,
                   write_at, write_dec, episode_writes, deferred, attempt_at,
                   cancelled, recv_inc, recv_dec>>
    /\ UNCHANGED <<supVars, startVars>>
    /\ UNCHANGED <<pending_at_accept, run_result, polls>>
    /\ UNCHANGED vmVars

\* *vm_input_tx.lock().unwrap() = Some(tx)
AttachWriter ==
    /\ vm_input_tx = "None"
    /\ main_pc = "run_vm"
    /\ loop_state # "forced"
    /\ vm_input_tx' = "Ready"
    /\ UNCHANGED <<ref_count, shutdown_deadline, shutdown_sent, hard_deadline,
                   loop_state, wake, auto_shutdown_ms, event_q, chan_open,
                   vm_input, now>>
    /\ UNCHANGED obsVars
    /\ UNCHANGED <<supVars, startVars>>
    /\ UNCHANGED <<pending_at_accept, run_result, polls>>
    /\ UNCHANGED vmVars

\* the receiver of the VM input channel is dropped
DropReceiver ==
    /\ vm_input_tx = "Ready"
    /\ vm_input_tx' = "Closed"
    /\ UNCHANGED <<ref_count, shutdown_deadline, shutdown_sent, hard_deadline,
                   loop_state, wake, auto_shutdown_ms, event_q, chan_open,
                   vm_input, now>>
    /\ UNCHANGED obsVars
    /\ UNCHANGED <<supVars, startVars>>
    /\ UNCHANGED <<pending_at_accept, run_result, polls>>
    /\ UNCHANGED vmVars

\* the harness drops its Sender
DropSender ==
    /\ chan_open
    /\ chan_open' = FALSE
    /\ UNCHANGED <<ref_count, shutdown_deadline, shutdown_sent, hard_deadline,
                   loop_state, wake, auto_shutdown_ms, event_q, vm_input_tx,
                   vm_input, now>>
    /\ UNCHANGED obsVars
    /\ UNCHANGED <<supVars, startVars>>
    /\ UNCHANGED <<pending_at_accept, run_result, polls>>
    /\ UNCHANGED vmVars

\* the state manager_event_loop starts in
LoopInit ==
    /\ ref_count = 0
    /\ shutdown_deadline = None
    /\ shutdown_sent = FALSE
    /\ hard_deadline = None
    /\ loop_state = "running"
    /\ now = 0
    /\ wake = IDLE_POLL_MS
    /\ event_q = <<>>
    /\ chan_open = TRUE
    /\ vm_input = <<>>
    /\ last_event = "none"
    /\ prev = Snapshot
    /\ zero_since = Some(0)
    /\ dec_at = None
    /\ write_at = None
    /\ write_dec = None
    /\ episode_writes = 0
    /\ deferred = FALSE
    /\ attempt_at = None
    /\ cancelled = FALSE
    /\ sent_events = 0
    /\ recv_inc = [c \in Conns |-> 0]
    /\ recv_dec = [c \in Conns |-> 0]

\* the state run_manager_with is in when it has bound the socket and
\* spawned the accept thread and the event loop
SupInit ==
    /\ conn_pc = [c \in Conns |-> "unconnected"]
    /\ client_open = [c \in Conns |-> FALSE]
    /\ conn_pid = [c \in Conns |-> None]
    /\ conn_fd = [c \in Conns |-> [stream |-> None, writer |-> None]]
    /\ backlog = <<>>
    /\ accept_pc = "idle"
    /\ accept_snap = None
    /\ clients = <<>>
    /\ fds = {}
    /\ latest_status = <<>>
    /\ out = [c \in Conns |-> <<>>]
    /\ bc_pc = "idle"
    /\ broadcasts = 0
    /\ main_pc = "run_vm"
    /\ vm_err = None
    /\ pending_at_accept = [c \in Conns |-> FALSE]
    /\ run_result = <<>>

\* the pids of the invocations and of the supervisors they spawn
InvokerPid(e) == e
SupervisorPid(s) == MaxInvokers + s
\* the pid of a process that died and left its files behind
DeadPid == 2 * MaxInvokers + 1

\* the instance directory and the processes once the supervisor the first
\* invocation spawned has bound vm.sock and the invocation has connected
StartServing ==
    /\ pid_file = Some(SupervisorPid(1))
    /\ sock_file = Some(1)
    /\ lock_file = None
    /\ inv_pc = [e \in Invokers |-> IF e = 1 THEN "done" ELSE "cleanup"]
    /\ inv_lock = [e \in Invokers |-> FALSE]
    /\ sup_pc = [e \in Invokers |-> IF e = 1 THEN "serving" ELSE "unborn"]
    /\ sup_guard = [e \in Invokers |-> e = 1]
    /\ polls = [e \in Invokers |-> 0]

\* the guest has written nothing
HookIdle ==
    /\ hook_text = <<>>
    /\ hook_pos = 0
    /\ line_buf = <<>>
    /\ cfg_vm_ipv4 = None
    /\ toml_vm_ipv4 = None
    /\ toml_writes = 0
    /\ write_calls = 0

\* no VM run
MonIdle ==
    /\ guest_text = <<>>
    /\ guest_pos = 0
    /\ mon_buffer = <<>>
    /\ actions = <<>>
    /\ act_i = 1
    /\ th_pc = "returned"
    /\ expired = FALSE
    /\ notified = FALSE
    /\ wait_result = <<>>
    /\ vm_output = <<>>
    /\ vm_output_read = 0
    /\ input_q = <<>>
    /\ vm_state = "Stopped"
    /\ run_pc = "done"
    /\ stop_requested = FALSE
    /\ exit_result = <<"Ok">>
    /\ contained = FALSE

\* the processes that use the files of the instance directory
FsProcs == {"supervisor", "client"}

\* nobody touches the files
FsIdle ==
    /\ toml_exists = FALSE
    /\ toml_lines = <<>>
    /\ toml_history = {}
    /\ f_pc = [p \in FsProcs |-> "done"]
    /\ f_cfg = [p \in FsProcs |-> <<>>]
    /\ f_raw = [p \in FsProcs |-> {}]
    /\ f_next = [p \in FsProcs |-> "done"]
    /\ f_polls = [p \in FsProcs |-> 0]
    /\ f_gen = [p \in FsProcs |-> 0]

\* no disk is being prepared
DiskIdle ==
    /\ instance_raw = None
    /\ template_raw = <<>>
    /\ disk_target = 0
    /\ disk_result = <<>>
    /\ disk_warned = FALSE
    /\ disk_calls = 0

ProvIdle ==
    /\ default_raw = None
    /\ default_at_call = None
    /\ prov_pc = "idle"
    /\ prov_result = <<>>

\* no mount spec is being translated
MountIdle ==
    /\ mount_spec = <<>>
    /\ mount_user = <<>>
    /\ mount_out = <<>>

\* no I/O threads
IoIdle ==
    /\ io_wakeup = 0
    /\ io_forward_input = TRUE
    /\ io_forward_output = TRUE
    /\ io_raw_mode = FALSE
    /\ io_stdin = 0
    /\ io_vm_output = 0
    /\ io_input_q = <<>>
    /\ stdin_pc = "exited"
    /\ stdout_pc = "exited"
    /\ mux_pc = "exited"
    /\ sd_pc = "returned"
    /\ io_events = 0

\* no call of the SessionManager
NoSessionCall ==
    [op |-> "none", id |-> 0, result |-> "none", before |-> <<>>,
     dir_present |-> FALSE]

\* no session index
SessIdle ==
    /\ sess_index = <<>>
    /\ sess_dirs = {}
    /\ sess_next_id = 1
    /\ sess_now = 0
    /\ sess_last = NoSessionCall
    /\ sess_incs = <<>>
    /\ sess_decs = <<>>

\* the parts of the VM run with a model of their own are at rest
VmIdle == HookIdle /\ MonIdle /\ FsIdle /\ DiskIdle /\ ProvIdle /\ MountIdle /\ IoIdle /\ SessIdle

\* the supervisor at rest, serving no client
MgrIdle ==
    /\ LoopInit
    /\ SupInit
    /\ StartServing
    /\ auto_shutdown_ms = 0
    /\ vm_input_tx = "None"

HarnessInit ==
    /\ LoopInit
    /\ SupInit
    /\ VmIdle
    /\ StartServing
    /\ auto_shutdown_ms \in AutoShutdownChoices
    /\ vm_input_tx \in {"None", "Ready"}

HarnessNext ==
    \/ LoopStep
    \/ Tick(MaxTime)
    \/ HarnessSend("Inc")
    \/ HarnessSend("Dec")
    \/ HarnessSend("VmExited")
    \/ AttachWriter
    \/ DropReceiver
    \/ DropSender

LoopSpec == HarnessInit /\ [][HarnessNext]_vars

\* ------------------------------------------------------- run_manager_with

STATUS_PREFIX == "status:"
STATUS_VM_ERROR_PREFIX == "vm_error"
\* A status is the sequence of the pieces it is formatted from, the empty
\* string the empty sequence.
\* what the status callback of the VM run reports
Statuses == {<<"vm booting...">>}
\* what a failed VM run returns
VmErrors == {"vm failed"}

\* send_status_line: the payload written to a client
StatusLine(status) == <<STATUS_PREFIX>> \o status \o <<"\n">>

\* the supervisor process has neither force-exited nor returned from main
ProcAlive == loop_state # "forced" /\ main_pc # "exited"

\* the descriptor the kernel hands out next: the lowest one not open
LowestFree(open) ==
    CHOOSE n \in 0 .. Cardinality(open) :
        n \notin open /\ \A m \in 0 .. n - 1 : m \in open

\* event_tx.send(..): fails, and is ignored, once the loop dropped the receiver
ChannelSend(q, ev) == IF LoopRunning THEN Append(q, ev) ELSE q

\* a client connects to vm.sock (and, if it is ensure_manager, writes its pid);
\* connections are numbered in the order in which they are made
ClientConnect(c) ==
    /\ ProcAlive
    /\ conn_pc[c] = "unconnected"
    /\ \A d \in 1 .. c - 1 : conn_pc[d] # "unconnected"
    /\ conn_pc' = [conn_pc EXCEPT ![c] = "queued"]
    /\ client_open' = [client_open EXCEPT ![c] = TRUE]
    /\ backlog' = Append(backlog, c)
    /\ UNCHANGED <<conn_pid, conn_fd, accept_pc, accept_snap, clients, fds,
                   latest_status, out, bc_pc, broadcasts, main_pc, vm_err>>
    /\ UNCHANGED <<loopVars, obsVars>>
    /\ UNCHANGED startVars
    /\ UNCHANGED <<pending_at_accept, run_result, polls>>
    /\ UNCHANGED vmVars

\* the client closes its end of the connection
ClientClose(c) ==
    /\ ProcAlive
    /\ client_open[c]
    /\ client_open' = [client_open EXCEPT ![c] = FALSE]
    /\ UNCHANGED <<conn_pc, conn_pid, conn_fd, backlog,
                   accept_pc, accept_snap, clients, fds, latest_status, out,
                   bc_pc, broadcasts, main_pc, vm_err>>
    /\ UNCHANGED <<loopVars, obsVars>>
    /\ UNCHANGED startVars
    /\ UNCHANGED <<pending_at_accept, run_result, polls>>
    /\ UNCHANGED vmVars

\* accept thread: listener.incoming() yields a stream, latest_status is
\* locked and copied
AcceptSnapshot ==
    /\ ProcAlive
    /\ accept_pc = "idle"
    /\ backlog # <<>>
    /\ LET c  == Head(backlog)
           fd == LowestFree(fds)
       IN  /\ conn_fd' = [conn_fd EXCEPT ![c].stream = Some(fd)]
           /\ fds' = fds \cup {fd}
           /\ conn_pc' = [conn_pc EXCEPT ![c] = "accepted"]
    /\ accept_snap' = Some(latest_status)
    /\ accept_pc' = "enroll"
    /\ UNCHANGED <<run_result, polls>>
    /\ UNCHANGED vmVars
    /\ pending_at_accept' =
           [pending_at_accept EXCEPT
               ![Head(backlog)] = IsSome(shutdown_deadline) /\ ~shutdown_sent]
    /\ UNCHANGED <<client_open, conn_pid, backlog, clients,
                   latest_status, out, bc_pc, broadcasts, main_pc, vm_err>>
    /\ UNCHANGED <<loopVars, obsVars>>
    /\ UNCHANGED startVars

\* the lines a client has received after a write of `status` to it
Written(o, c, status) ==
    IF client_open[c] THEN [o EXCEPT ![c] = Append(@, StatusLine(status))]
    ELSE o

\* mutant: the snapshot is replayed without the test for the empty string
ReplayedAlways(o, c, snap) == Written(o, c, snap)

\* the replay of the snapshot to the writer just pushed: nothing when it is
\* the empty string
Replayed(o, c, snap) == IF snap # <<>> THEN Written(o, c, snap) ELSE o

\* accept thread: the stream is cloned, the clone pushed into clients under
\* the lock, a non-empty snapshot replayed to it, the connection thread
\* spawned
AcceptEnroll ==
    /\ ProcAlive
    /\ accept_pc = "enroll"
    /\ LET c   == Head(backlog)
           wfd == LowestFree(fds)
       IN  /\ conn_fd' = [conn_fd EXCEPT ![c].writer = Some(wfd)]
           /\ fds' = fds \cup {wfd}
           /\ clients' = Append(clients, [fd |-> wfd, conn |-> c])
           /\ out' = Replayed(out, c, Unwrap(accept_snap))
           /\ conn_pc' = [conn_pc EXCEPT ![c] = "reading"]
    /\ backlog' = Tail(backlog)
    /\ accept_pc' = "idle"
    /\ UNCHANGED <<client_open, conn_pid, latest_status, accept_snap,
                   bc_pc, broadcasts, main_pc, vm_err>>
    /\ UNCHANGED <<loopVars, obsVars>>
    /\ UNCHANGED startVars
    /\ UNCHANGED <<pending_at_accept, run_result, polls>>
    /\ UNCHANGED vmVars

\* read_client_pid: Some(pid) when the client wrote a `pid=<n>` line and it
\* arrived within 200 ms, None otherwise
ReadClientPid(c, arrived) == IF arrived THEN Some(c) ELSE None

\* connection thread: read_client_pid, then send Inc(pid)
ConnReadPid(c, arrived) ==
    /\ ProcAlive
    /\ conn_pc[c] = "reading"
    /\ conn_pid' = [conn_pid EXCEPT ![c] = ReadClientPid(c, arrived)]
    /\ event_q' = ChannelSend(event_q, Event("Inc", conn_pid'[c], c))
    /\ conn_pc' = [conn_pc EXCEPT ![c] = "waiting"]
    /\ UNCHANGED <<client_open, conn_fd, backlog, accept_pc,
                   accept_snap, clients, fds, latest_status, out, bc_pc,
                   broadcasts, main_pc, vm_err>>
    /\ UNCHANGED <<ref_count, shutdown_deadline, shutdown_sent, hard_deadline,
                   loop_state, wake, auto_shutdown_ms, chan_open, vm_input_tx,
                   vm_input, now>>
    /\ UNCHANGED obsVars
    /\ UNCHANGED startVars
    /\ UNCHANGED <<pending_at_accept, run_result, polls>>
    /\ UNCHANGED vmVars

\* remove_client: retain the writers whose descriptor is not fd
remove_client(streams, fd) == SelectSeq(streams, LAMBDA w : w.fd # fd)

\* the descriptors of the writers in a list
WriterFds(streams) == {streams[i].fd : i \in 1 .. Len(streams)}

\* mutant: the connection thread announces the departure as an arrival
DepartureAsArrival(c) == Event("Inc", conn_pid[c], c)

\* what the connection thread sends once its client is gone
DepartureEvent(c) == Event("Dec", conn_pid[c], c)

\* connection thread: wait_for_disconnect returned (the stream is dropped),
\* then remove_client, then send Dec(pid)
ConnFinish(c) ==
    /\ ProcAlive
    /\ conn_pc[c] = "waiting"
    /\ ~client_open[c]
    /\ LET wfd  == Unwrap(conn_fd[c].writer)
           kept == remove_client(clients, wfd)
       IN  /\ clients' = kept
           /\ fds' = (fds \ conn_fd[c].stream)
                         \ (WriterFds(clients) \ WriterFds(kept))
    /\ event_q' = ChannelSend(event_q, DepartureEvent(c))
    /\ conn_pc' = [conn_pc EXCEPT ![c] = "done"]
    /\ UNCHANGED <<client_open, conn_pid, conn_fd, backlog,
                   accept_pc, accept_snap, latest_status, out, bc_pc,
                   broadcasts, main_pc, vm_err>>
    /\ UNCHANGED <<ref_count, shutdown_deadline, shutdown_sent, hard_deadline,
                   loop_state, wake, auto_shutdown_ms, chan_open, vm_input_tx,
                   vm_input, now>>
    /\ UNCHANGED obsVars
    /\ UNCHANGED startVars
    /\ UNCHANGED <<pending_at_accept, run_result, polls>>
    /\ UNCHANGED vmVars

\* broadcast_status, first lock: *current = status
BroadcastStore(status) ==
    /\ ProcAlive
    /\ main_pc = "run_vm"
    /\ bc_pc = "idle"
    /\ broadcasts < MaxBroadcasts
    /\ latest_status' = status
    /\ bc_pc' = "fanout"
    /\ broadcasts' = broadcasts + 1
    /\ UNCHANGED <<conn_pc, client_open, conn_pid, conn_fd,
                   backlog, accept_pc, accept_snap, clients, fds, out,
                   main_pc, vm_err>>
    /\ UNCHANGED <<loopVars, obsVars>>
    /\ UNCHANGED startVars
    /\ UNCHANGED <<pending_at_accept, run_result, polls>>
    /\ UNCHANGED vmVars

\* mutant: the result of send_status_line is ignored, every writer is kept
RetainedAll(streams) == streams

\* clients.retain_mut(|stream| send_status_line(stream, status))
Retained(streams) == SelectSeq(streams, LAMBDA w : client_open[w.conn])

\* the lines every client has received after the fan-out of `status`
FannedOut(streams, status) ==
    [c \in Conns |->
        IF \E i \in 1 .. Len(streams) :
               streams[i].conn = c /\ client_open[c]
        THEN Append(out[c], StatusLine(status))
        ELSE out[c]]

\* broadcast_status, second lock: the fan-out, failed writers dropped
BroadcastFanout ==
    /\ ProcAlive
    /\ bc_pc = "fanout"
    /\ clients' = Retained(clients)
    /\ out' = FannedOut(clients, latest_status)
    /\ fds' = fds \ (WriterFds(clients) \ WriterFds(clients'))
    /\ bc_pc' = "idle"
    /\ UNCHANGED <<conn_pc, client_open, conn_pid, conn_fd,
                   backlog, accept_pc, accept_snap, latest_status, broadcasts,
                   main_pc, vm_err>>
    /\ UNCHANGED <<loopVars, obsVars>>
    /\ UNCHANGED startVars
    /\ UNCHANGED <<pending_at_accept, run_result, polls>>
    /\ UNCHANGED vmVars

\* executor.run_vm returns, with an error or without; the receiver of the VM
\* input channel goes with it
VmRunReturns(err) ==
    /\ ProcAlive
    /\ main_pc = "run_vm"
    /\ bc_pc = "idle"
    /\ vm_err' = err
    /\ vm_input_tx' = IF vm_input_tx = "Ready" THEN "Closed" ELSE vm_input_tx
    /\ main_pc' = IF IsSome(err) THEN "broadcast_err" ELSE "send_exited"
    /\ UNCHANGED <<conn_pc, client_open, conn_pid, conn_fd,
                   backlog, accept_pc, accept_snap, clients, fds,
                   latest_status, out, bc_pc, broadcasts>>
    /\ UNCHANGED <<ref_count, shutdown_deadline, shutdown_sent, hard_deadline,
                   loop_state, wake, auto_shutdown_ms, event_q, chan_open,
                   vm_input, now>>
    /\ UNCHANGED obsVars
    /\ UNCHANGED startVars
    /\ UNCHANGED <<pending_at_accept, run_result, polls>>
    /\ UNCHANGED vmVars

\* main thread: broadcast_status of the VM error, first lock
ErrBroadcastStore ==
    /\ ProcAlive
    /\ main_pc = "broadcast_err"
    /\ latest_status' = <<STATUS_VM_ERROR_PREFIX, " ", Unwrap(vm_err)>>
    /\ main_pc' = "err_fanout"
    /\ UNCHANGED <<conn_pc, client_open, conn_pid, conn_fd,
                   backlog, accept_pc, accept_snap, clients, fds, out, bc_pc,
                   broadcasts, vm_err>>
    /\ UNCHANGED <<loopVars, obsVars>>
    /\ UNCHANGED startVars
    /\ UNCHANGED <<pending_at_accept, run_result, polls>>
    /\ UNCHANGED vmVars

\* main thread: broadcast_status of the VM error, second lock
ErrBroadcastFanout ==
    /\ ProcAlive
    /\ main_pc = "err_fanout"
    /\ clients' = Retained(clients)
    /\ out' = FannedOut(clients, latest_status)
    /\ fds' = fds \ (WriterFds(clients) \ WriterFds(clients'))
    /\ main_pc' = "send_exited"
    /\ UNCHANGED <<conn_pc, client_open, conn_pid, conn_fd,
                   backlog, accept_pc, accept_snap, latest_status, bc_pc,
                   broadcasts, vm_err>>
    /\ UNCHANGED <<loopVars, obsVars>>
    /\ UNCHANGED startVars
    /\ UNCHANGED <<pending_at_accept, run_result, polls>>
    /\ UNCHANGED vmVars

\* main thread: event_tx.send(ManagerEvent::VmExited(vm_err))
SendVmExited ==
    /\ ProcAlive
    /\ main_pc = "send_exited"
    /\ event_q' = ChannelSend(event_q, Event("VmExited", vm_err, 0))
    /\ main_pc' = "join"
    /\ UNCHANGED <<conn_pc, client_open, conn_pid, conn_fd,
                   backlog, accept_pc, accept_snap, clients, fds,
                   latest_status, out, bc_pc, broadcasts, vm_err>>
    /\ UNCHANGED <<ref_count, shutdown_deadline, shutdown_sent, hard_deadline,
                   loop_state, wake, auto_shutdown_ms, chan_open, vm_input_tx,
                   vm_input, now>>
    /\ UNCHANGED obsVars
    /\ UNCHANGED startVars
    /\ UNCHANGED <<pending_at_accept, run_result, polls>>
    /\ UNCHANGED vmVars

\* mutant: the error of the VM run is logged and not returned
RunResultOk(err) == <<"Ok">>

\* what run_manager_with returns once the loop has returned Ok(()): the
\* error of the VM run if there is one
RunResult(err) == IF IsSome(err) THEN <<"Err", Unwrap(err)>> ELSE <<"Ok">>

\* main thread: the event loop is joined, vm.sock is removed and
\* run_manager_with returns
JoinAndReturn ==
    /\ main_pc = "join"
    /\ loop_state = "returned"
    /\ sock_file' = None
    /\ run_result' = RunResult(vm_err)
    /\ main_pc' = "exited"
    /\ UNCHANGED <<conn_pc, client_open, conn_pid, conn_fd,
                   backlog, accept_pc, accept_snap, clients, fds,
                   latest_status, out, bc_pc, broadcasts, vm_err>>
    /\ UNCHANGED <<loopVars, obsVars>>
    /\ UNCHANGED <<pid_file, lock_file, inv_pc, inv_lock, sup_pc, sup_guard>>
    /\ UNCHANGED <<pending_at_accept, polls>>
    /\ UNCHANGED vmVars

Init ==
    /\ LoopInit
    /\ SupInit
    /\ VmIdle
    /\ StartServing
    /\ auto_shutdown_ms \in SupAutoShutdownChoices
    /\ vm_input_tx = "None"

\* The steps of the threads that feed the event loop: the clients, the accept
\* thread, the connection threads and the main thread around the VM run.
SupervisorStep ==
    \/ \E c \in Conns : ClientConnect(c)
    \/ \E c \in Conns : ClientClose(c)
    \/ AcceptSnapshot
    \/ AcceptEnroll
    \/ \E c \in Conns, arrived \in BOOLEAN : ConnReadPid(c, arrived)
    \/ \E c \in Conns : ConnFinish(c)
    \/ \E err \in {None} \cup {Some(e) : e \in VmErrors} : VmRunReturns(err)
    \/ ErrBroadcastStore
    \/ ErrBroadcastFanout
    \/ SendVmExited
    \/ JoinAndReturn

\* The main thread keeps its Sender until the loop is joined, so the loop of
\* a supervisor never sees the channel disconnected.  Spec is the supervisor
\* with its clock; the status callback of the VM run is left to StatusSpec.
Next ==
    \/ HandleInc
    \/ HandleDec
    \/ HandleVmExited
    \/ HandleTimeout
    \/ Tick(MaxSupTime)
    \/ AttachWriter
    \/ SupervisorStep

Spec == Init /\ [][Next]_vars

\* StatusSpec is the supervisor with the status callback of the VM run and
\* without the clock: no receive of the loop times out.
StatusNext ==
    \/ HandleInc
    \/ HandleDec
    \/ HandleVmExited
    \/ \E status \in Statuses : BroadcastStore(status)
    \/ BroadcastFanout
    \/ SupervisorStep

StatusSpec == Init /\ [][StatusNext]_vars

\* ------------------------------------------- the supervisor, fairly scheduled

\* a thread of the supervisor has a step to take that waits for nothing
ThreadsPending ==
    \/ backlog # <<>>
    \/ accept_pc = "enroll"
    \/ \E c \in Conns : conn_pc[c] = "reading"
    \/ \E c \in Conns : conn_pc[c] = "waiting" /\ ~client_open[c]
    \/ main_pc \in {"broadcast_err", "err_fanout", "send_exited"}

\* the clock of LiveSpec: the threads are scheduled within a step of it
LiveTick == Tick(MaxLiveTime) /\ ~ThreadsPending

\* the clients of LiveSpec
LiveClientStep ==
    /\ now <= MaxClientTime
    /\ \/ \E c \in Conns : ClientConnect(c)
       \/ \E c \in Conns : ClientClose(c)

LiveNext ==
    \/ HandleInc
    \/ HandleDec
    \/ HandleVmExited
    \/ HandleTimeout
    \/ LiveTick
    \/ AttachWriter
    \/ LiveClientStep
    \/ AcceptSnapshot
    \/ AcceptEnroll
    \/ \E c \in Conns, arrived \in BOOLEAN : ConnReadPid(c, arrived)
    \/ \E c \in Conns : ConnFinish(c)
    \/ \E err \in {None} \cup {Some(e) : e \in VmErrors} : VmRunReturns(err)
    \/ ErrBroadcastStore
    \/ ErrBroadcastFanout
    \/ SendVmExited
    \/ JoinAndReturn

\* Every thread of the supervisor that can take a step takes it, and the
\* clock goes on; the clients, the VM run and the VM input writer are free.
LiveFairness ==
    /\ WF_vars(HandleInc)
    /\ WF_vars(HandleDec)
    /\ WF_vars(HandleVmExited)
    /\ WF_vars(HandleTimeout)
    /\ WF_vars(LiveTick)
    /\ WF_vars(AcceptSnapshot)
    /\ WF_vars(AcceptEnroll)
    /\ \A c \in Conns : WF_vars(\E arrived \in BOOLEAN : ConnReadPid(c, arrived))
    /\ \A c \in Conns : WF_vars(ConnFinish(c))
    /\ WF_vars(ErrBroadcastStore)
    /\ WF_vars(ErrBroadcastFanout)
    /\ WF_vars(SendVmExited)
    /\ WF_vars(JoinAndReturn)

LiveSpec == Init /\ [][LiveNext]_vars /\ LiveFairness

\* ------------------------------------------------------------- start-up

\* the supervisor process exists
SupAlive(s) == sup_pc[s] \notin {"unborn", "exited"}

\* pid_is_alive: kill(pid, 0) finds the process
pid_is_alive(pid) ==
    \/ \E e \in Invokers : pid = InvokerPid(e)
    \/ \E s \in Invokers : pid = SupervisorPid(s) /\ SupAlive(s)

\* vm_manager_liveness(pid_path, socket_path) on the contents of the files
vm_manager_liveness(pidf, sockf) ==
    IF pidf = None THEN "NotRunningOrMissing"
    ELSE IF ~pid_is_alive(Unwrap(pidf)) THEN "NotRunningOrMissing"
    ELSE IF IsSome(sockf) THEN "RunningWithSocket"
    ELSE "RunningWithoutSocket"

\* vm.pid and vm.sock of the instance directory under a root: those of the
\* project under the project root; none under vm.lock, a regular file
FilesUnder(root) ==
    IF root = "project" THEN [pid |-> pid_file, sock |-> sock_file]
    ELSE [pid |-> None, sock |-> None]

\* instance::vm_liveness(root): the liveness computed from vm.pid and vm.sock
\* of the instance directory under root
vm_liveness(root) ==
    vm_manager_liveness(FilesUnder(root).pid, FilesUnder(root).sock)

\* is_lock_stale(lock_path): the liveness of the root it is given
is_lock_stale(root) == vm_liveness(root) = "NotRunningOrMissing"

\* UnixStream::connect(vm.sock) succeeds: a live listener is bound to the file
Connectable ==
    /\ IsSome(sock_file)
    /\ Unwrap(sock_file) \in Invokers
    /\ sup_pc[Unwrap(sock_file)] = "serving"

\* cleanup_stale_manager: the liveness is computed
InvCleanupCheck(e) ==
    /\ inv_pc[e] = "cleanup"
    /\ inv_pc' = [inv_pc EXCEPT ![e] =
                     IF vm_liveness("project") = "NotRunningOrMissing"
                     THEN "cleanup_remove" ELSE "connect"]
    /\ UNCHANGED <<pid_file, sock_file, lock_file, inv_lock, sup_pc, sup_guard>>
    /\ UNCHANGED <<loopVars, obsVars, supVars>>
    /\ UNCHANGED <<pending_at_accept, run_result, polls>>
    /\ UNCHANGED vmVars

\* cleanup_stale_manager: fs::remove_file(&pid_path)
InvCleanupRemove(e) ==
    /\ inv_pc[e] = "cleanup_remove"
    /\ pid_file' = None
    /\ inv_pc' = [inv_pc EXCEPT ![e] = "connect"]
    /\ UNCHANGED <<sock_file, lock_file, inv_lock, sup_pc, sup_guard>>
    /\ UNCHANGED <<loopVars, obsVars, supVars>>
    /\ UNCHANGED <<pending_at_accept, run_result, polls>>
    /\ UNCHANGED vmVars

\* ensure_manager: the first UnixStream::connect
InvConnect(e) ==
    /\ inv_pc[e] = "connect"
    /\ inv_pc' = [inv_pc EXCEPT ![e] = IF Connectable THEN "done" ELSE "lock"]
    /\ UNCHANGED <<pid_file, sock_file, lock_file, inv_lock, sup_pc, sup_guard>>
    /\ UNCHANGED <<loopVars, obsVars, supVars>>
    /\ UNCHANGED <<pending_at_accept, run_result, polls>>
    /\ UNCHANGED vmVars

\* acquire_spawn_lock: create_new(true).open(lock_path), pid written on success
InvLockCreate(e) ==
    /\ inv_pc[e] = "lock"
    /\ IF lock_file = None
       THEN /\ lock_file' = Some(InvokerPid(e))
            /\ inv_lock' = [inv_lock EXCEPT ![e] = TRUE]
            /\ inv_pc' = [inv_pc EXCEPT ![e] = "spawn"]
       ELSE /\ inv_pc' = [inv_pc EXCEPT ![e] = "lock_probe"]
            /\ UNCHANGED <<lock_file, inv_lock>>
    /\ UNCHANGED <<pid_file, sock_file, sup_pc, sup_guard>>
    /\ UNCHANGED <<loopVars, obsVars, supVars>>
    /\ UNCHANGED <<pending_at_accept, run_result, polls>>
    /\ UNCHANGED vmVars

\* acquire_spawn_lock, AlreadyExists: is_lock_stale(lock_path)
InvLockProbe(e) ==
    /\ inv_pc[e] = "lock_probe"
    /\ inv_pc' = [inv_pc EXCEPT ![e] =
                     IF is_lock_stale("lock") THEN "lock_remove" ELSE "poll"]
    /\ UNCHANGED <<pid_file, sock_file, lock_file, inv_lock, sup_pc, sup_guard>>
    /\ UNCHANGED <<loopVars, obsVars, supVars>>
    /\ UNCHANGED <<pending_at_accept, run_result, polls>>
    /\ UNCHANGED vmVars

\* acquire_spawn_lock: fs::remove_file(lock_path), then the recursive call
InvLockRemove(e) ==
    /\ inv_pc[e] = "lock_remove"
    /\ lock_file' = None
    /\ inv_pc' = [inv_pc EXCEPT ![e] = "lock"]
    /\ UNCHANGED <<pid_file, sock_file, inv_lock, sup_pc, sup_guard>>
    /\ UNCHANGED <<loopVars, obsVars, supVars>>
    /\ UNCHANGED <<pending_at_accept, run_result, polls>>
    /\ UNCHANGED vmVars

\* ensure_manager: spawn_manager_process
InvSpawn(e) ==
    /\ inv_pc[e] = "spawn"
    /\ sup_pc[e] = "unborn"
    /\ sup_pc' = [sup_pc EXCEPT ![e] = "liveness"]
    /\ inv_pc' = [inv_pc EXCEPT ![e] = "poll"]
    /\ UNCHANGED <<pid_file, sock_file, lock_file, inv_lock, sup_guard>>
    /\ UNCHANGED <<loopVars, obsVars, supVars>>
    /\ UNCHANGED <<pending_at_accept, run_result, polls>>
    /\ UNCHANGED vmVars

\* ensure_manager leaves the poll loop: the lock it holds is dropped and
\* vm.lock removed
ReleaseLock(e) ==
    /\ lock_file' = IF inv_lock[e] THEN None ELSE lock_file
    /\ inv_lock' = [inv_lock EXCEPT ![e] = FALSE]

\* ensure_manager, poll loop: UnixStream::connect succeeds
InvPollConnect(e) ==
    /\ inv_pc[e] = "poll"
    /\ Connectable
    /\ ReleaseLock(e)
    /\ inv_pc' = [inv_pc EXCEPT ![e] = "done"]
    /\ UNCHANGED <<pid_file, sock_file, sup_pc, sup_guard>>
    /\ UNCHANGED <<loopVars, obsVars, supVars>>
    /\ UNCHANGED <<pending_at_accept, run_result, polls>>
    /\ UNCHANGED vmVars

\* mutant: the poll loop gives up at its first failed connect
PollExpiresAtOnce(n) == TRUE

\* start.elapsed() > timeout, after n sleeps of the poll loop
PollExpired(n) == n >= MaxPolls

\* ensure_manager, poll loop: the connect fails before the 10 s have elapsed,
\* thread::sleep(100 ms)
InvPollSleep(e) ==
    /\ inv_pc[e] = "poll"
    /\ ~Connectable
    /\ ~PollExpired(polls[e])
    /\ polls' = [polls EXCEPT ![e] = @ + 1]
    /\ UNCHANGED <<pid_file, sock_file, lock_file, inv_pc, inv_lock, sup_pc,
                   sup_guard>>
    /\ UNCHANGED <<loopVars, obsVars, supVars>>
    /\ UNCHANGED <<pending_at_accept, run_result>>
    /\ UNCHANGED vmVars

\* ensure_manager, poll loop: the connect fails and 10 s have elapsed
InvPollTimeout(e) ==
    /\ inv_pc[e] = "poll"
    /\ ~Connectable
    /\ PollExpired(polls[e])
    /\ ReleaseLock(e)
    /\ inv_pc' = [inv_pc EXCEPT ![e] = "failed"]
    /\ UNCHANGED <<pid_file, sock_file, sup_pc, sup_guard>>
    /\ UNCHANGED <<loopVars, obsVars, supVars>>
    /\ UNCHANGED <<pending_at_accept, run_result, polls>>
    /\ UNCHANGED vmVars

\* Drop for PidFileGuard: fs::remove_file(&self.path)
DropPidGuard(s) ==
    /\ pid_file' = IF sup_guard[s] THEN None ELSE pid_file
    /\ sup_guard' = [sup_guard EXCEPT ![s] = FALSE]

\* mutant: ensure_pid_file gives up on every live pid
BailsOnAnyLivePid(l) == l # "NotRunningOrMissing"

\* ensure_pid_file bails on this liveness: RunningWithSocket only;
\* RunningWithoutSocket is logged as a stale pid file
BailsOnLiveness(l) == l = "RunningWithSocket"

\* ensure_pid_file: vm_liveness(project_root), bail on RunningWithSocket
SupLiveness(s) ==
    /\ sup_pc[s] = "liveness"
    /\ sup_pc' = [sup_pc EXCEPT ![s] =
                     IF BailsOnLiveness(vm_liveness("project"))
                     THEN "exited" ELSE "remove_pid"]
    /\ UNCHANGED <<pid_file, sock_file, lock_file, inv_pc, inv_lock, sup_guard>>
    /\ UNCHANGED <<loopVars, obsVars, supVars>>
    /\ UNCHANGED <<pending_at_accept, run_result, polls>>
    /\ UNCHANGED vmVars

\* ensure_pid_file: fs::remove_file(&pid_path)
SupRemovePid(s) ==
    /\ sup_pc[s] = "remove_pid"
    /\ pid_file' = None
    /\ sup_pc' = [sup_pc EXCEPT ![s] = "write_pid"]
    /\ UNCHANGED <<sock_file, lock_file, inv_pc, inv_lock, sup_guard>>
    /\ UNCHANGED <<loopVars, obsVars, supVars>>
    /\ UNCHANGED <<pending_at_accept, run_result, polls>>
    /\ UNCHANGED vmVars

\* ensure_pid_file: fs::write(&pid_path, pid), the guard returned
SupWritePid(s) ==
    /\ sup_pc[s] = "write_pid"
    /\ pid_file' = Some(SupervisorPid(s))
    /\ sup_guard' = [sup_guard EXCEPT ![s] = TRUE]
    /\ sup_pc' = [sup_pc EXCEPT ![s] = "probe"]
    /\ UNCHANGED <<sock_file, lock_file, inv_pc, inv_lock>>
    /\ UNCHANGED <<loopVars, obsVars, supVars>>
    /\ UNCHANGED <<pending_at_accept, run_result, polls>>
    /\ UNCHANGED vmVars

\* run_manager_with: the connect probe; on success it returns Ok(()) and the
\* guard is dropped
SupProbe(s) ==
    /\ sup_pc[s] = "probe"
    /\ IF Connectable
       THEN /\ DropPidGuard(s)
            /\ sup_pc' = [sup_pc EXCEPT ![s] = "exited"]
       ELSE /\ sup_pc' = [sup_pc EXCEPT ![s] = "unlink"]
            /\ UNCHANGED <<pid_file, sup_guard>>
    /\ UNCHANGED <<sock_file, lock_file, inv_pc, inv_lock>>
    /\ UNCHANGED <<loopVars, obsVars, supVars>>
    /\ UNCHANGED <<pending_at_accept, run_result, polls>>
    /\ UNCHANGED vmVars

\* run_manager_with: if socket_path.exists() { fs::remove_file(&socket_path) }
SupUnlinkStale(s) ==
    /\ sup_pc[s] = "unlink"
    /\ sock_file' = None
    /\ sup_pc' = [sup_pc EXCEPT ![s] = "bind"]
    /\ UNCHANGED <<pid_file, lock_file, inv_pc, inv_lock, sup_guard>>
    /\ UNCHANGED <<loopVars, obsVars, supVars>>
    /\ UNCHANGED <<pending_at_accept, run_result, polls>>
    /\ UNCHANGED vmVars

\* run_manager_with: UnixListener::bind(&socket_path)?, which fails when the
\* path exists
SupBind(s) ==
    /\ sup_pc[s] = "bind"
    /\ IF sock_file = None
       THEN /\ sock_file' = Some(s)
            /\ sup_pc' = [sup_pc EXCEPT ![s] = "serving"]
            /\ UNCHANGED <<pid_file, sup_guard>>
       ELSE /\ DropPidGuard(s)
            /\ sup_pc' = [sup_pc EXCEPT ![s] = "exited"]
            /\ UNCHANGED sock_file
    /\ UNCHANGED <<lock_file, inv_pc, inv_lock>>
    /\ UNCHANGED <<loopVars, obsVars, supVars>>
    /\ UNCHANGED <<pending_at_accept, run_result, polls>>
    /\ UNCHANGED vmVars

\* run_manager_with returns after the VM run: fs::remove_file(&socket_path),
\* then the guard is dropped
SupReturn(s) ==
    /\ sup_pc[s] = "serving"
    /\ sock_file' = None
    /\ DropPidGuard(s)
    /\ sup_pc' = [sup_pc EXCEPT ![s] = "exited"]
    /\ UNCHANGED <<lock_file, inv_pc, inv_lock>>
    /\ UNCHANGED <<loopVars, obsVars, supVars>>
    /\ UNCHANGED <<pending_at_accept, run_result, polls>>
    /\ UNCHANGED vmVars

\* force_exit: std::process::exit(1), nothing is cleaned up
SupForceExit(s) ==
    /\ sup_pc[s] = "serving"
    /\ sup_pc' = [sup_pc EXCEPT ![s] = "exited"]
    /\ sup_guard' = [sup_guard EXCEPT ![s] = FALSE]
    /\ UNCHANGED <<pid_file, sock_file, lock_file, inv_pc, inv_lock>>
    /\ UNCHANGED <<loopVars, obsVars, supVars>>
    /\ UNCHANGED <<pending_at_accept, run_result, polls>>
    /\ UNCHANGED vmVars

\* The instance directory as earlier processes may have left it: empty, or
\* with the files of processes that died without cleaning up, or with a
\* vm.pid that holds the pid of the first caller.
StartInit ==
    /\ LoopInit
    /\ SupInit
    /\ VmIdle
    /\ auto_shutdown_ms \in SupAutoShutdownChoices
    /\ vm_input_tx = "None"
    /\ pid_file \in {None, Some(DeadPid), Some(InvokerPid(1))}
    /\ sock_file \in {None, Some(0)}
    /\ lock_file \in {None, Some(DeadPid)}
    /\ inv_pc = [e \in Invokers |-> "cleanup"]
    /\ inv_lock = [e \in Invokers |-> FALSE]
    /\ sup_pc = [e \in Invokers |-> "unborn"]
    /\ sup_guard = [e \in Invokers |-> FALSE]
    /\ polls = [e \in Invokers |-> 0]

StartNext ==
    \/ \E e \in Invokers : InvCleanupCheck(e)
    \/ \E e \in Invokers : InvCleanupRemove(e)
    \/ \E e \in Invokers : InvConnect(e)
    \/ \E e \in Invokers : InvLockCreate(e)
    \/ \E e \in Invokers : InvLockProbe(e)
    \/ \E e \in Invokers : InvLockRemove(e)
    \/ \E e \in Invokers : InvSpawn(e)
    \/ \E e \in Invokers : InvPollConnect(e)
    \/ \E e \in Invokers : InvPollSleep(e)
    \/ \E e \in Invokers : InvPollTimeout(e)
    \/ \E s \in Invokers : SupLiveness(s)
    \/ \E s \in Invokers : SupRemovePid(s)
    \/ \E s \in Invokers : SupWritePid(s)
    \/ \E s \in Invokers : SupProbe(s)
    \/ \E s \in Invokers : SupUnlinkStale(s)
    \/ \E s \in Invokers : SupBind(s)
    \/ \E s \in Invokers : SupReturn(s)
    \/ \E s \in Invokers : SupForceExit(s)

StartSpec == StartInit /\ [][StartNext]_vars

\* ------------------------------------------- claims about the event loop

\* C4: ref_count is never negative, and a Dec the loop receives at
\* ref_count = 0 leaves it at 0.
C4_RefCountSaturates ==
    /\ ref_count >= 0
    /\ (last_event = "Dec" /\ prev.ref_count = 0) => ref_count = 0

\* a Dec was received at ref_count = 0
C4_Witness ==
    /\ last_event = "Dec"
    /\ prev.ref_count = 0
    /\ ref_count = 0

\* C5: right after the loop processed an Inc, in whatever state it found the
\* loop, shutdown_deadline and hard_deadline are unset and shutdown_sent is
\* false.
C5_IncClearsShutdown ==
    last_event = "Inc" =>
        /\ shutdown_deadline = None
        /\ hard_deadline = None
        /\ shutdown_sent = FALSE

\* an Inc processed after the poweroff command was sent
C5_Witness ==
    /\ last_event = "Inc"
    /\ prev.shutdown_sent
    /\ IsSome(prev.hard_deadline)

\* C6 as stated: whenever ref_count has been 0 without a break for grace plus
\* one timer tick (the loop's idle receive timeout), shutdown_sent is true or
\* hard_deadline is set and not later than now; the state before any client
\* connected and the state with no usable writer included.
C6_Original ==
    (/\ LoopRunning
     /\ ref_count = 0
     /\ IsSome(zero_since)
     /\ now >= Unwrap(zero_since) + grace + IDLE_POLL_MS)
    => \/ shutdown_sent
       \/ IsSome(hard_deadline) /\ Unwrap(hard_deadline) <= now

\* C6 as amended: when a Dec left ref_count at 0 and it stayed 0 for grace
\* plus one step of the clock since that Dec, shutdown_sent is true or
\* hard_deadline is set (possibly later than now).
C6_DrainArmsShutdown ==
    (/\ LoopRunning
     /\ ref_count = 0
     /\ IsSome(dec_at)
     /\ now >= Unwrap(dec_at) + grace + TimeStep)
    => \/ shutdown_sent
       \/ IsSome(hard_deadline)

\* the grace period is over, the writer was not usable, the loop still runs
C6_Witness ==
    /\ LoopRunning
    /\ ref_count = 0
    /\ IsSome(dec_at)
    /\ now >= Unwrap(dec_at) + grace + TimeStep
    /\ deferred
    /\ ~shutdown_sent
    /\ IsSome(hard_deadline)
    /\ Unwrap(hard_deadline) > now

\* the last arm was a receive timeout that found ref_count = 0 and
\* hard_deadline set and not later than now
HardDueAtTimeout ==
    /\ last_event = "Timeout"
    /\ prev.loop_state = "running"
    /\ prev.ref_count = 0
    /\ IsSome(prev.hard_deadline)
    /\ Unwrap(prev.hard_deadline) <= prev.at

\* C7 as stated: a timer wake-up that finds hard_deadline set and not later
\* than now while ref_count = 0 force-exits the process, whatever
\* shutdown_sent is.
C7_Original == HardDueAtTimeout => loop_state = "forced"

\* C7 as amended: such a wake-up force-exits the process unless it first
\* sends the deferred poweroff command successfully, which moves
\* hard_deadline to now + HARD.
C7_ForceExitAtHardDeadline ==
    (HardDueAtTimeout /\ ~(~prev.shutdown_sent /\ shutdown_sent))
    => loop_state = "forced"

\* forced out with the command never sent
C7_Witness ==
    /\ HardDueAtTimeout
    /\ loop_state = "forced"
    /\ ~shutdown_sent
    /\ deferred

\* C8: with a usable writer at every attempt, after a Dec left ref_count at 0
\* the poweroff command is written exactly once: not before grace has passed
\* since the Dec, by the time grace plus one step of the clock has passed, and
\* never a second time before the next Inc.
C8_PoweroffOnceAfterGrace ==
    /\ episode_writes <= 1
    /\ episode_writes = 1 =>
           /\ IsSome(write_at) /\ IsSome(write_dec)
           /\ Unwrap(write_at) >= Unwrap(write_dec) + grace
    /\ (/\ LoopRunning
        /\ ref_count = 0
        /\ IsSome(dec_at)
        /\ ~deferred
        /\ now >= Unwrap(dec_at) + grace + TimeStep)
       => /\ episode_writes = 1
          /\ vm_input # <<>>
          /\ vm_input[Len(vm_input)] = POWEROFF

\* one Inc, one Dec, the command written once and time has gone on since
C8_Witness ==
    /\ sent_events = 2
    /\ event_q = <<>>
    /\ episode_writes = 1
    /\ vm_input = <<POWEROFF>>
    /\ ~deferred
    /\ now > Unwrap(write_at)

\* C10: after an Inc that was processed while a grace timer was pending, no
\* poweroff is written while ref_count >= 1, and the Dec that brings
\* ref_count back to 0 schedules the shutdown a full grace after that Dec.
C10_ReconnectRestartsGrace ==
    cancelled =>
        /\ ref_count >= 1 =>
               /\ episode_writes = 0
               /\ shutdown_deadline = None
        /\ (IsSome(shutdown_deadline) /\ ~deferred) =>
               /\ IsSome(dec_at)
               /\ shutdown_deadline = Some(Unwrap(dec_at) + grace)
        /\ episode_writes >= 1 =>
               Unwrap(write_at) >= Unwrap(write_dec) + grace

\* the poweroff written in the drain that followed a cancelled one, with a
\* grace of more than one step of the clock
C10_Witness ==
    /\ cancelled
    /\ episode_writes = 1
    /\ grace > TimeStep
    /\ Unwrap(write_at) = Unwrap(write_dec) + grace

\* ------------------------------------ claims about the connection threads

\* an event of connection c is in the channel
Queued(c) == \E i \in 1 .. Len(event_q) : event_q[i].conn = c

\* C3: for every accepted connection the loop receives one Inc and one Dec,
\* the Inc first, whether or not the client sent a pid line: never more than
\* one of each, never the Dec without the Inc before it, and, as long as the
\* loop runs, the Inc once the connection thread has sent it and the Dec once
\* the thread has ended.
C3_OneIncOneDec ==
    \A c \in Conns :
        /\ recv_inc[c] <= 1
        /\ recv_dec[c] <= recv_inc[c]
        /\ (LoopRunning /\ ~Queued(c)) =>
               /\ conn_pc[c] \in {"unconnected", "queued", "accepted", "reading"}
                      => recv_inc[c] = 0 /\ recv_dec[c] = 0
               /\ conn_pc[c] = "waiting" => recv_inc[c] = 1 /\ recv_dec[c] = 0
               /\ conn_pc[c] = "done" => recv_inc[c] = 1 /\ recv_dec[c] = 1

\* a connection whose client sent no pid line has come and gone, and the loop
\* has received both of its events
C3_Witness ==
    \E c \in Conns :
        /\ conn_pc[c] = "done"
        /\ conn_pid[c] = None
        /\ LoopRunning
        /\ recv_inc[c] = 1
        /\ recv_dec[c] = 1

\* C9: while ref_count >= 1 no step writes the poweroff command to the VM
\* input and no step force-exits the process.
C9_NoShutdownWhileReferenced ==
    [][ref_count >= 1 => (vm_input' = vm_input /\ loop_state' # "forced")]_vars

\* a receive timed out with a client connected and a usable writer, after an
\* earlier grace timer was cancelled
C9_Witness ==
    /\ last_event = "Timeout"
    /\ prev.ref_count >= 1
    /\ ref_count >= 1
    /\ cancelled
    /\ vm_input_tx = "Ready"

\* the next step of invocation e of ensure_manager
InvStep(e) ==
    \/ InvCleanupCheck(e)
    \/ InvCleanupRemove(e)
    \/ InvConnect(e)
    \/ InvLockCreate(e)
    \/ InvLockProbe(e)
    \/ InvLockRemove(e)
    \/ InvSpawn(e)
    \/ InvPollConnect(e)
    \/ InvPollSleep(e)
    \/ InvPollTimeout(e)

\* every invocation keeps running; nothing is assumed of the supervisors
StartFairness == \A e \in Invokers : WF_vars(InvStep(e))

StartLiveSpec == StartInit /\ [][StartNext]_vars /\ StartFairness

\* ------------------------------------------------ claims about the start-up

\* C1: at every instant at most one live supervisor has written vm.pid of the
\* project and holds a bound listener for its vm.sock.
C1_SingleSupervisor ==
    Cardinality({s \in Invokers : sup_pc[s] = "serving" /\ sup_guard[s]}) <= 1

\* C2: an invocation that finds vm.lock with the pid of a live process in it
\* goes on to poll-connect, without removing the lock or spawning; so at most
\* one invocation at a time holds the spawn lock.
C2_LiveLockRespected ==
    [][/\ \A e \in Invokers :
              (/\ inv_pc[e] = "lock_probe"
               /\ inv_pc'[e] # "lock_probe"
               /\ IsSome(lock_file)
               /\ pid_is_alive(Unwrap(lock_file)))
              => inv_pc'[e] = "poll"
       /\ Cardinality({e \in Invokers : inv_lock'[e]}) <= 1]_vars

\* ------------------------- claims about the retries and the hard deadline

\* no Dec was received since the first shutdown attempt of the episode
NoDecSinceAttempt ==
    /\ IsSome(attempt_at)
    /\ IsSome(dec_at)
    /\ Unwrap(dec_at) + grace <= Unwrap(attempt_at)

\* C11: when no VM input writer has ever been available and a shutdown was
\* attempted, shutdown_sent stays false and nothing is written; while the loop
\* runs a retry is pending within RETRY and the clock has not passed the first
\* attempt + HARD; the loop force-exits exactly then, and it returns normally
\* only on a further event (VmExited, or the channel disconnected).
C11_ForceExitWithoutWriter ==
    (vm_input_tx = "None" /\ IsSome(attempt_at)) =>
        /\ ~shutdown_sent
        /\ vm_input = <<>>
        /\ deferred
        /\ hard_deadline = Some(Unwrap(attempt_at) + hard_timeout)
        /\ LoopRunning =>
               /\ now <= Unwrap(attempt_at) + hard_timeout
               /\ IsSome(shutdown_deadline)
               /\ NoDecSinceAttempt =>
                      Unwrap(shutdown_deadline) <= now + SHUTDOWN_RETRY_MS
        /\ loop_state = "forced" =>
               now = Unwrap(attempt_at) + hard_timeout
        /\ loop_state = "returned" =>
               last_event \in {"VmExited", "Disconnected"}

\* Inc, Dec, no writer, nothing else: forced out HARD after the first attempt,
\* which followed at least one retry
C11_Witness ==
    /\ vm_input_tx = "None"
    /\ sent_events = 2
    /\ chan_open
    /\ prev.ref_count = 0
    /\ loop_state = "forced"
    /\ IsSome(attempt_at)
    /\ now = Unwrap(attempt_at) + hard_timeout
    /\ ~shutdown_sent

\* a step of the Timeout arm that makes a shutdown attempt
AttemptStep ==
    /\ LoopRunning
    /\ ShutdownDue
    /\ event_q = <<>>
    /\ event_q' = event_q
    /\ shutdown_deadline' # shutdown_deadline

\* C12: after an attempt found no usable writer, the first retry that finds
\* the writer attached writes the poweroff command once, sets shutdown_sent
\* and does not force-exit; it is the only write of the episode, and a
\* VmExited received afterwards makes the loop return normally.
C12_DeferredPoweroffThenExit ==
    [][/\ (AttemptStep /\ deferred /\ vm_input_tx = "Ready") =>
              /\ vm_input' = Append(vm_input, POWEROFF)
              /\ episode_writes = 0
              /\ episode_writes' = 1
              /\ shutdown_sent'
              /\ shutdown_deadline' = None
              /\ loop_state' = "running"
       /\ (deferred /\ shutdown_sent) => (shutdown_sent' => vm_input' = vm_input)
       /\ (/\ deferred /\ shutdown_sent /\ LoopRunning
           /\ event_q # <<>> /\ event_q' = Tail(event_q)
           /\ Head(event_q).kind = "VmExited") =>
              /\ loop_state' = "returned"
              /\ vm_input' = vm_input]_vars

\* Inc, Dec, a deferred attempt, the writer attached before the hard
\* deadline, the command written once, VmExited, the loop returned
C12_Witness ==
    /\ sent_events = 3
    /\ deferred
    /\ shutdown_sent
    /\ vm_input = <<POWEROFF>>
    /\ Unwrap(write_at) < Unwrap(attempt_at) + hard_timeout
    /\ last_event = "VmExited"
    /\ loop_state = "returned"

\* C13 as stated: within a drain episode the force-exit deadline is never
\* later than the first shutdown attempt of the episode + HARD, also when the
\* poweroff command is sent only on a later retry.
C13_Original ==
    (ref_count = 0 /\ IsSome(attempt_at) /\ IsSome(hard_deadline)) =>
        Unwrap(hard_deadline) <= Unwrap(attempt_at) + hard_timeout

\* C13 as amended: from the first shutdown attempt of an episode on,
\* hard_deadline is set; it is the first attempt + HARD as long as the
\* poweroff command has not been sent, and the time of the send + HARD once
\* it has.
C13_HardDeadlineFromAttemptOrSend ==
    (ref_count = 0 /\ IsSome(attempt_at)) =>
        /\ IsSome(hard_deadline)
        /\ episode_writes = 0 =>
               hard_deadline = Some(Unwrap(attempt_at) + hard_timeout)
        /\ episode_writes >= 1 =>
               hard_deadline = Some(Unwrap(write_at) + hard_timeout)

\* the command was sent on a retry, later than the first attempt
C13_Witness ==
    /\ ref_count = 0
    /\ deferred
    /\ episode_writes = 1
    /\ Unwrap(write_at) > Unwrap(attempt_at)
    /\ hard_deadline = Some(Unwrap(write_at) + hard_timeout)

\* ------------------------------------- claims about the supervisor's threads

\* connection c was accepted and its client has not closed it
Connected(c) ==
    /\ conn_pc[c] \in {"accepted", "reading", "waiting"}
    /\ client_open[c]

\* C14: while a client stays connected whose connection was accepted with a
\* shutdown scheduled and the poweroff command not yet written, no step writes
\* the command, the time its connection thread spends reading the pid line
\* included.
C14_LateClientCancelsPoweroff ==
    [][(\E c \in Conns : pending_at_accept[c] /\ Connected(c))
           => vm_input' = vm_input]_vars

\* every client that connected has closed its connection
AllClientsGone ==
    /\ \E c \in Conns : conn_pc[c] # "unconnected"
    /\ \A c \in Conns : ~client_open[c]

\* the supervisor process has ended: run_manager_with returned, or force_exit
Terminated == main_pc = "exited" \/ loop_state = "forced"

Enrolled(streams, c) == \E i \in 1 .. Len(streams) : streams[i].conn = c

\* a step that is the fan-out of a broadcast_status call
FanoutStep ==
    \/ bc_pc = "fanout" /\ bc_pc' = "idle"
    \/ main_pc = "err_fanout" /\ main_pc' = "send_exited"

\* a step that is the store of a broadcast_status call
StoreStep ==
    \/ bc_pc = "idle" /\ bc_pc' = "fanout"
    \/ main_pc = "broadcast_err" /\ main_pc' = "err_fanout"

\* C16: broadcast_status(s) stores s in latest_status, then writes the line
\* `status:<s>\n` to every writer in clients; the writers whose write fails
\* (their client has closed) are removed, the others stay enrolled, and no
\* other connection is written to or enrolled.
C16_BroadcastReachesLiveWriters ==
    [][/\ StoreStep =>
              /\ latest_status' # <<>>
              /\ clients' = clients
              /\ out' = out
       /\ FanoutStep =>
              /\ latest_status' = latest_status
              /\ \A c \in Conns :
                     /\ (Enrolled(clients, c) /\ client_open[c]) =>
                            /\ out'[c] = Append(out[c],
                                   <<STATUS_PREFIX>> \o latest_status \o <<"\n">>)
                            /\ Enrolled(clients', c)
                     /\ (Enrolled(clients, c) /\ ~client_open[c]) =>
                            /\ out'[c] = out[c]
                            /\ ~Enrolled(clients', c)
                     /\ ~Enrolled(clients, c) =>
                            /\ out'[c] = out[c]
                            /\ ~Enrolled(clients', c)]_vars

\* a broadcast found one writer whose client had closed and removed it (its
\* connection thread has not run remove_client yet), and reached another
C16_Witness ==
    /\ bc_pc = "idle"
    /\ broadcasts = 1
    /\ \E c, d \in Conns :
           /\ conn_pc[c] = "waiting"
           /\ ~client_open[c]
           /\ ~Enrolled(clients, c)
           /\ Enrolled(clients, d)
           /\ out[d] # <<>>
           /\ out[d][Len(out[d])] = <<STATUS_PREFIX>> \o latest_status \o <<"\n">>

\* C17: the accept thread copies latest_status when it accepts a connection
\* and, right after pushing the connection's writer into clients, sends that
\* copy to it as a `status:` line if it is not empty; a client accepted while
\* latest_status is empty is sent nothing on enrollment.  No other client is
\* written to.
C17_ReplayOnEnrollment ==
    [][/\ (accept_pc = "idle" /\ accept_pc' = "enroll") =>
              /\ accept_snap' = Some(latest_status)
              /\ out' = out
              /\ clients' = clients
       /\ (accept_pc = "enroll" /\ accept_pc' = "idle") =>
              LET c == Head(backlog)
                  snap == Unwrap(accept_snap)
              IN  /\ clients' = Append(clients, clients'[Len(clients')])
                  /\ clients'[Len(clients')].conn = c
                  /\ \A d \in Conns \ {c} : out'[d] = out[d]
                  /\ (snap # <<>> /\ client_open[c]) =>
                         out'[c] = Append(out[c],
                                     <<STATUS_PREFIX>> \o snap \o <<"\n">>)
                  /\ snap = <<>> => out'[c] = out[c]]_vars

\* the connection accepted last was accepted after a status had been
\* broadcast, and the one line it has been sent is the replay of that status
C17_Witness ==
    /\ accept_pc = "idle"
    /\ IsSome(accept_snap)
    /\ Unwrap(accept_snap) # <<>>
    /\ Unwrap(accept_snap) = latest_status
    /\ clients # <<>>
    /\ LET c == clients[Len(clients)].conn
       IN  /\ client_open[c]
           /\ out[c] = << <<STATUS_PREFIX>> \o latest_status \o <<"\n">> >>

\* C18: connections are accepted in the order of their indices; if a was
\* accepted before b, the loop has received Inc(a) by the time it receives
\* Inc(b), and it has not received the Dec of b while the Inc of a, sent or
\* not, is still to come.
C18_EventsInAcceptOrder ==
    \A a, b \in Conns :
        (a < b /\ recv_inc[b] + recv_dec[b] >= 1) => recv_inc[a] = 1

\* the status last broadcast is a vm_error status
VmErrorBroadcast ==
    /\ latest_status # <<>>
    /\ Head(latest_status) = STATUS_VM_ERROR_PREFIX

\* C19: whenever the supervisor has terminated with exit code 1, by the
\* forced exit at the hard deadline or by returning the error of the VM run,
\* a vm_error status has been broadcast before.
C19_ErrorBroadcastBeforeExit ==
    /\ loop_state = "forced" => VmErrorBroadcast
    /\ (main_pc = "exited" /\ IsSome(vm_err)) => VmErrorBroadcast

\* C20: a VmExited event, with or without an error, makes the loop return
\* normally whatever ref_count and the deadlines are, without a write to the
\* VM input; once it has returned no event is taken from the channel, no
\* poweroff is written and the process is not forced out; run_manager_with
\* then removes vm.sock and returns an error exactly when the VM run
\* reported one.
C20_VmExitedEndsTheLoop ==
    [][/\ (LoopRunning /\ event_q # <<>> /\ Head(event_q).kind = "VmExited"
           /\ last_event' = "VmExited") =>
              /\ loop_state' = "returned"
              /\ vm_input' = vm_input
       /\ loop_state = "returned" =>
              /\ loop_state' = "returned"
              /\ vm_input' = vm_input
              /\ last_event' = last_event
              /\ recv_inc' = recv_inc
              /\ recv_dec' = recv_dec
              /\ <<ref_count, shutdown_deadline, shutdown_sent,
                    hard_deadline>>' =
                 <<ref_count, shutdown_deadline, shutdown_sent, hard_deadline>>
       /\ (main_pc = "join" /\ main_pc' = "exited") =>
              /\ sock_file' = None
              /\ run_result' # <<>>
              /\ (Head(run_result') = "Err") <=> IsSome(vm_err)
              /\ (Head(run_result') = "Ok") <=> ~IsSome(vm_err)
              /\ IsSome(vm_err) => run_result'[2] \in vm_err]_vars

\* the VM run failed while a client was connected and a shutdown of an
\* earlier episode was not pending: the loop returned, nothing was written to
\* the VM input, vm.sock is gone and the error was returned
C20_Witness ==
    /\ last_event = "VmExited"
    /\ loop_state = "returned"
    /\ ref_count >= 1
    /\ vm_input = <<>>
    /\ main_pc = "exited"
    /\ IsSome(vm_err)
    /\ sock_file = None
    /\ run_result = <<"Err", Unwrap(vm_err)>>

\* ensure_manager has returned, with a stream or with an error
InvReturned(e) == inv_pc[e] \in {"done", "failed"}

LivePidNoSocket == vm_liveness("project") = "RunningWithoutSocket"

IPV4_MARKER == <<"VIBEBOX_", "IPV4=">>

\* the value of an ASCII digit, -1 for any other piece
DigitVal(ch) ==
    CASE ch = "1" -> 1
      [] ch = "2" -> 2
      [] ch = "9" -> 9
      [] OTHER -> -1

is_ascii_digit(ch) == DigitVal(ch) >= 0

\* str::find: the first index at which pat occurs in text, 0 when none
Find(text, pat) ==
    LET hits == {i \in 1 .. Len(text) - Len(pat) + 1 :
                    SubSeq(text, i, i + Len(pat) - 1) = pat}
    IN  IF hits = {} THEN 0
        ELSE CHOOSE i \in hits : \A j \in hits : i <= j

\* str::split('.'): the parts of a text between the dots
RECURSIVE SplitDots(_)
SplitDots(text) ==
    LET dot == Find(text, <<".">>)
    IN  IF dot = 0 THEN <<text>>
        ELSE <<SubSeq(text, 1, dot - 1)>>
                 \o SplitDots(SubSeq(text, dot + 1, Len(text)))

\* part.parse::<u8>() of a part of digits: the number, 256 when too large
RECURSIVE ParseU8(_, _)
ParseU8(part, acc) ==
    IF part = <<>> THEN acc
    ELSE IF acc * 10 + DigitVal(Head(part)) > 255 THEN 256
    ELSE ParseU8(Tail(part), acc * 10 + DigitVal(Head(part)))

\* is_ipv4_candidate: four parts, each of one to three digits and at most 255
is_ipv4_candidate(candidate) ==
    LET parts == SplitDots(candidate)
    IN  /\ Len(parts) = 4
        /\ \A i \in 1 .. 4 :
               /\ parts[i] # <<>>
               /\ Len(parts[i]) <= 3
               /\ ParseU8(parts[i], 0) <= 255

\* extract_ipv4: the first maximal run of digits and dots that is a
\* candidate, None when there is none; the scan of line followed by a space
RECURSIVE ScanIpv4(_, _)
ScanIpv4(chars, current) ==
    IF chars = <<>> THEN None
    ELSE IF is_ascii_digit(Head(chars)) \/ Head(chars) = "."
         THEN ScanIpv4(Tail(chars), Append(current, Head(chars)))
    ELSE IF current # <<>> /\ is_ipv4_candidate(current) THEN Some(current)
    ELSE ScanIpv4(Tail(chars), <<>>)

extract_ipv4(line) == ScanIpv4(Append(line, " "), <<>>)

\* str::trim_start_matches(['\r', ' '])
RECURSIVE trim_start(_)
trim_start(line) ==
    IF line # <<>> /\ Head(line) \in {"\r", " "}
    THEN trim_start(Tail(line)) ELSE line

\* the path the hook hands to write_instance_config: project_dir, the
\* project root that run_manager_with passed to run_vm
HookConfigPath == "project"

\* the file the clients read the address from
INSTANCE_TOML == "project/.vibebox/instance.toml"

\* the directories of the project
IsDirectory(path) == path \in {"project", "project/.vibebox"}

\* write_instance_config(path, config) with the result discarded: fs::write
\* fails on a directory; instance.toml changes when it is the file written
WriteInstanceConfig(path, st, ip) ==
    [st EXCEPT !.calls = @ + 1,
               !.toml = IF path = INSTANCE_TOML /\ ~IsDirectory(path)
                        THEN Some(ip) ELSE @,
               !.writes = IF path = INSTANCE_TOML /\ ~IsDirectory(path)
                          THEN @ + 1 ELSE @]

\* the hook on one complete line (without its line feed)
HookLine(st, fullLine) ==
    LET line == IF fullLine # <<>> /\ fullLine[Len(fullLine)] = "\r"
                THEN SubSeq(fullLine, 1, Len(fullLine) - 1) ELSE fullLine
        cleaned == trim_start(line)
        pos == Find(cleaned, IPV4_MARKER)
        ip == IF pos = 0 THEN None
              ELSE extract_ipv4(SubSeq(cleaned, pos + Len(IPV4_MARKER),
                                       Len(cleaned)))
    IN  IF IsSome(ip) /\ st.cfg # ip
        THEN WriteInstanceConfig(HookConfigPath,
                                 [st EXCEPT !.cfg = ip], Unwrap(ip))
        ELSE st

\* the while loop of the hook: every complete line of line_buf is handled
RECURSIVE HookLines(_)
HookLines(st) ==
    LET pos == Find(st.buf, <<"\n">>)
    IN  IF pos = 0 THEN st
        ELSE HookLines(HookLine(
                 [st EXCEPT !.buf = SubSeq(st.buf, pos + 1, Len(st.buf))],
                 SubSeq(st.buf, 1, pos - 1)))

\* the reader thread hands the next n pieces of the guest output to the hook
HookOutput(n) ==
    /\ hook_pos + n <= Len(hook_text)
    /\ LET st == HookLines([buf |-> line_buf \o
                                       SubSeq(hook_text, hook_pos + 1,
                                              hook_pos + n),
                            cfg |-> cfg_vm_ipv4,
                            toml |-> toml_vm_ipv4,
                            writes |-> toml_writes,
                            calls |-> write_calls])
       IN  /\ line_buf' = st.buf
           /\ cfg_vm_ipv4' = st.cfg
           /\ toml_vm_ipv4' = st.toml
           /\ toml_writes' = st.writes
           /\ write_calls' = st.calls
    /\ hook_pos' = hook_pos + n
    /\ UNCHANGED hook_text
    /\ UNCHANGED <<mgrVars, monVars, fsVars, diskVars, provVars, mountVars, ioVars, sessVars>>

\* addresses the guest may print, valid and not
Addr1 == <<"1", ".", "1", ".", "1", ".", "1">>
Addr2 == <<"1", ".", "1", ".", "1", ".", "2">>
TooFewParts == <<"1", ".", "1", ".", "1">>
PartTooLarge == <<"2", "9", "9", ".", "1", ".", "1", ".", "1">>
EmptyPart == <<"1", ".", ".", "1", ".", "1">>

\* lines of guest output
HookInputLines ==
    {IPV4_MARKER \o Addr1 \o <<"\n">>,
     IPV4_MARKER \o Addr2 \o <<"\n">>,
     <<" ">> \o IPV4_MARKER \o Addr1 \o <<"\r", "\n">>,
     IPV4_MARKER \o TooFewParts \o <<"\n">>,
     IPV4_MARKER \o PartTooLarge \o <<"\n">>,
     IPV4_MARKER \o EmptyPart \o <<" ">> \o Addr2 \o <<"\n">>,
     <<"IPV4=">> \o Addr1 \o <<"\n">>}


HookInit ==
    /\ MgrIdle
    /\ SessIdle
    /\ IoIdle
    /\ MountIdle
    /\ MonIdle
    /\ FsIdle
    /\ DiskIdle
    /\ ProvIdle
    /\ hook_text \in {a \o b : a, b \in HookInputLines}
    /\ hook_pos = 0
    /\ line_buf = <<>>
    /\ cfg_vm_ipv4 = None
    /\ toml_vm_ipv4 = None
    /\ toml_writes = 0
    /\ write_calls = 0

HookNext == \E n \in 1 .. MaxChunk : HookOutput(n)

HookSpec == HookInit /\ [][HookNext]_vars

\* the whole guest output was handed to the hook
HookDone == hook_pos = Len(hook_text)

\* C23: an address the hook took from a VIBEBOX_IPV4= line is written to
\* instance.toml: the file holds the vm_ipv4 the shared configuration holds,
\* every write the hook asks for reaches the file, and a line with a valid
\* address fed twice gives one write and leaves vm_ipv4 at that address.
C23_Ipv4PersistedOnce ==
    /\ toml_vm_ipv4 = cfg_vm_ipv4
    /\ toml_writes = write_calls
    /\ \A l \in HookInputLines :
           (HookDone /\ hook_text = l \o l /\ IsSome(cfg_vm_ipv4)) =>
               /\ write_calls = 1
               /\ toml_writes = 1

\* ------------------------------ OutputMonitor and the login-action thread
\* src/src/vm.rs.  The guest output is a sequence of pieces of text that the
\* reader thread pushes into the monitor in chunks; a needle is a sequence
\* of pieces, so that a push can end inside it.

Expect(text, timeout) ==
    [kind |-> "Expect", needles |-> <<text>>, text |-> <<>>,
     timeout |-> timeout]
ExpectEither(success, failure, timeout) ==
    [kind |-> "ExpectEither", needles |-> <<success, failure>>,
     text |-> <<>>, timeout |-> timeout]
Send(text) ==
    [kind |-> "Send", needles |-> <<>>, text |-> text, timeout |-> 0]

\* a positive timeout; the model does not measure it, it elapses at some point
LOGIN_EXPECT_TIMEOUT == 120

LOGIN_PROMPT == <<"login", ": ">>
SHELL_PROMPT == <<"~", "#">>

\* mutant: the later first occurrence wins
LaterThan(a, b) == a > b

\* find_any: candidate.0 < b.0, the candidate replaces the best so far
EarlierThan(a, b) == a < b

\* find_any: over the needles in order, the (pos, idx) of the needle whose
\* first occurrence starts earliest, the first such needle on a tie;
\* <<0, 0>> when no needle occurs.  idx counts from 0 as in the source.
RECURSIVE FindAnyFrom(_, _, _, _)
FindAnyFrom(buf, needles, k, best) ==
    IF k > Len(needles) THEN best
    ELSE LET pos == Find(buf, needles[k])
         IN  IF pos > 0 /\ (best[1] = 0 \/ EarlierThan(pos, best[1]))
             THEN FindAnyFrom(buf, needles, k + 1, <<pos, k - 1>>)
             ELSE FindAnyFrom(buf, needles, k + 1, best)

find_any(buf, needles) == FindAnyFrom(buf, needles, 1, <<0, 0>>)

\* mutant: the buffer is cut at the start of the match
RemainingFromMatch(buf, pos, len) == SubSeq(buf, pos, Len(buf))

\* split_once(needle).1 and buf[(pos + len)..]: what follows the match
Remaining(buf, pos, len) == SubSeq(buf, pos + len, Len(buf))

\* a needle of the list occurs in the buffer
ContainsAny(buf, needles) ==
    \E k \in 1 .. Len(needles) : Find(buf, needles[k]) > 0

\* mutant: the command is sent as it is
BytesAsGiven(text) == text

\* Send: text.push('\n'), VmInput::Bytes(text.into_bytes())
BytesOfSend(text) == Append(text, "\n")

\* the thread after action i: the next action, or the end of the list
AfterAction(i) == IF i >= Len(actions) THEN "returned" ELSE "next"

\* login-action thread: the next action of the list is begun; a Send is
\* enqueued on input_tx, an Expect or ExpectEither locks the buffer for the
\* first evaluation of its condition
LoginBegin ==
    /\ th_pc = "next"
    /\ act_i <= Len(actions)
    /\ LET a == actions[act_i]
       IN  IF a.kind = "Send"
           THEN /\ input_q' = Append(input_q, BytesOfSend(a.text))
                /\ th_pc' = AfterAction(act_i)
                /\ act_i' = act_i + 1
                /\ UNCHANGED <<expired, notified, contained>>
           ELSE /\ th_pc' = "check"
                /\ expired' = (a.timeout = 0)
                /\ notified' = FALSE
                /\ contained' = ContainsAny(mon_buffer, a.needles)
                /\ UNCHANGED <<input_q, act_i>>
    /\ UNCHANGED <<guest_text, guest_pos, mon_buffer, actions, wait_result,
                   vm_output, vm_output_read, vm_state, run_pc,
                   stop_requested, exit_result>>
    /\ UNCHANGED <<mgrVars, hookVars, fsVars, diskVars, provVars, mountVars, ioVars, sessVars>>

\* wait_timeout_while, holding the lock: the condition is evaluated.  A match
\* is consumed and the wait returns Found; with no match the wait returns
\* Timeout if the timeout has elapsed and sleeps on the condvar otherwise.
\* The thread then acts on the result: it goes on after Found (Found(0) of
\* an ExpectEither), and otherwise sends one VmOutput and returns.
WaitCheck ==
    /\ th_pc = "check"
    /\ LET a == actions[act_i]
           hit == find_any(mon_buffer, a.needles)
       IN  IF hit[1] > 0
           THEN /\ mon_buffer' = Remaining(mon_buffer, hit[1],
                                           Len(a.needles[hit[2] + 1]))
                /\ wait_result' = <<"Found", hit[2]>>
                /\ IF hit[2] = 0
                   THEN /\ th_pc' = AfterAction(act_i)
                        /\ act_i' = act_i + 1
                        /\ UNCHANGED vm_output
                   ELSE /\ th_pc' = "returned"
                        /\ vm_output' =
                               Append(vm_output,
                                      [kind |-> "LoginActionFailed",
                                       action |-> act_i])
                        /\ UNCHANGED act_i
                /\ UNCHANGED notified
           ELSE IF expired
           THEN /\ wait_result' = <<"Timeout">>
                /\ th_pc' = "returned"
                /\ vm_output' = Append(vm_output,
                                       [kind |-> "LoginActionTimeout",
                                        action |-> act_i])
                /\ UNCHANGED <<mon_buffer, act_i, notified>>
           ELSE /\ th_pc' = "waiting"
                /\ notified' = FALSE
                /\ UNCHANGED <<mon_buffer, wait_result, vm_output, act_i>>
    /\ UNCHANGED <<guest_text, guest_pos, actions, expired, vm_output_read,
                   input_q, vm_state, run_pc, stop_requested, exit_result,
                   contained>>
    /\ UNCHANGED <<mgrVars, hookVars, fsVars, diskVars, provVars, mountVars, ioVars, sessVars>>

\* the condvar wait ends, by a notification or by the timeout; the lock is
\* taken again
WaitWake ==
    /\ th_pc = "waiting"
    /\ notified \/ expired
    /\ th_pc' = "check"
    /\ UNCHANGED <<guest_text, guest_pos, mon_buffer, actions, act_i, expired,
                   notified, wait_result, vm_output, vm_output_read, input_q,
                   vm_state, run_pc, stop_requested, exit_result, contained>>
    /\ UNCHANGED <<mgrVars, hookVars, fsVars, diskVars, provVars, mountVars, ioVars, sessVars>>

\* the timeout of the wait in progress elapses
WaitExpire ==
    /\ th_pc \in {"check", "waiting"}
    /\ ~expired
    /\ expired' = TRUE
    /\ UNCHANGED <<guest_text, guest_pos, mon_buffer, actions, act_i, th_pc,
                   notified, wait_result, vm_output, vm_output_read, input_q,
                   vm_state, run_pc, stop_requested, exit_result, contained>>
    /\ UNCHANGED <<mgrVars, hookVars, fsVars, diskVars, provVars, mountVars, ioVars, sessVars>>

\* OutputMonitor::push by the reader thread: the next n pieces of the guest
\* output are appended under the lock, then notify_all.  The lock is free:
\* the login thread holds it only within a step.
MonPush(n) ==
    /\ vm_state = "Running"
    /\ guest_pos + n <= Len(guest_text)
    /\ mon_buffer' = mon_buffer \o SubSeq(guest_text, guest_pos + 1,
                                          guest_pos + n)
    /\ guest_pos' = guest_pos + n
    /\ notified' = TRUE
    /\ contained' =
           IF th_pc \in {"check", "waiting"}
           THEN contained \/ ContainsAny(mon_buffer', actions[act_i].needles)
           ELSE contained
    /\ UNCHANGED <<guest_text, actions, act_i, th_pc, expired, wait_result,
                   vm_output, vm_output_read, input_q, vm_state, run_pc,
                   stop_requested, exit_result>>
    /\ UNCHANGED <<mgrVars, hookVars, fsVars, diskVars, provVars, mountVars, ioVars, sessVars>>

\* the guest halts, on its own or because a stop was requested
VmStops ==
    /\ vm_state = "Running"
    /\ vm_state' = "Stopped"
    /\ UNCHANGED <<guest_text, guest_pos, mon_buffer, actions, act_i, th_pc,
                   expired, notified, wait_result, vm_output, vm_output_read,
                   input_q, run_pc, stop_requested, exit_result, contained>>
    /\ UNCHANGED <<mgrVars, hookVars, fsVars, diskVars, provVars, mountVars, ioVars, sessVars>>

\* run_vm_with_io, one turn of the run loop: the state is read, then
\* vm_output_rx.try_recv(); a message sets exit_result, asks a VM that can be
\* asked to stop, and ends the loop; without a message the loop ends when the
\* state read is not Running
RunLoopTurn ==
    /\ run_pc = "loop"
    /\ IF vm_output_read < Len(vm_output)
       THEN /\ vm_output_read' = vm_output_read + 1
            /\ exit_result' = <<"Err", vm_output[vm_output_read + 1]>>
            /\ stop_requested' = (vm_state = "Running")
            /\ run_pc' = "join"
       ELSE /\ vm_state # "Running"
            /\ run_pc' = "join"
            /\ UNCHANGED <<vm_output_read, exit_result, stop_requested>>
    /\ UNCHANGED <<guest_text, guest_pos, mon_buffer, actions, act_i, th_pc,
                   expired, notified, wait_result, vm_output, input_q,
                   vm_state, contained>>
    /\ UNCHANGED <<mgrVars, hookVars, fsVars, diskVars, provVars, mountVars, ioVars, sessVars>>

\* run_vm_with_io after the loop: login_actions_thread.join(), the I/O is
\* shut down, exit_result is returned
RunJoin ==
    /\ run_pc = "join"
    /\ th_pc = "returned"
    /\ run_pc' = "done"
    /\ UNCHANGED <<guest_text, guest_pos, mon_buffer, actions, act_i, th_pc,
                   expired, notified, wait_result, vm_output, vm_output_read,
                   input_q, vm_state, stop_requested, exit_result, contained>>
    /\ UNCHANGED <<mgrVars, hookVars, fsVars, diskVars, provVars, mountVars, ioVars, sessVars>>

MonNext ==
    \/ LoginBegin
    \/ WaitCheck
    \/ WaitWake
    \/ WaitExpire
    \/ \E n \in 1 .. MaxPush : MonPush(n)
    \/ VmStops
    \/ RunLoopTurn
    \/ RunJoin

\* the VM run as it begins: the VM runs, the monitor is empty, the thread is
\* at the first action
RunBegins ==
    /\ guest_pos = 0
    /\ mon_buffer = <<>>
    /\ act_i = 1
    /\ th_pc = IF actions = <<>> THEN "returned" ELSE "next"
    /\ expired = FALSE
    /\ notified = FALSE
    /\ wait_result = <<>>
    /\ vm_output = <<>>
    /\ vm_output_read = 0
    /\ input_q = <<>>
    /\ vm_state = "Running"
    /\ run_pc = "loop"
    /\ stop_requested = FALSE
    /\ exit_result = <<"Ok">>
    /\ contained = FALSE

\* markers a provisioning script prints
OK_MARKER == <<"O", "K">>
FAIL_MARKER == <<"F", "L">>

\* lists a caller of the monitor waits with
MonitorActionLists ==
    {<<Expect(OK_MARKER, t)>> : t \in {0, LOGIN_EXPECT_TIMEOUT}}
    \cup {<<Expect(OK_MARKER, t), Expect(OK_MARKER, 0)>> :
              t \in {0, LOGIN_EXPECT_TIMEOUT}}
    \cup {<<ExpectEither(OK_MARKER, FAIL_MARKER, t), Send(<<"next">>)>> :
              t \in {0, LOGIN_EXPECT_TIMEOUT}}

\* what the guest prints while they wait
MonitorGuestTexts ==
    {<<>>,
     <<"x", "O", "K", "x">>,
     <<"O", "O", "K", "O", "K">>,
     <<"O", "x", "K">>,
     <<"F", "L", "x", "O", "K">>,
     <<"O", "K", "F", "L">>,
     <<"F", "O", "K", "L">>,
     <<"x", "F", "L">>}

MonitorInit ==
    /\ MgrIdle
    /\ SessIdle
    /\ IoIdle
    /\ MountIdle
    /\ HookIdle
    /\ FsIdle
    /\ DiskIdle
    /\ ProvIdle
    /\ actions \in MonitorActionLists
    /\ guest_text \in MonitorGuestTexts
    /\ RunBegins

MonitorSpec == MonitorInit /\ [][MonNext]_vars

\* ---------------------------------------- claims about the OutputMonitor

\* the wait of the action in progress returns in this step
WaitReturns == th_pc = "check" /\ th_pc' \notin {"check", "waiting"}

\* C24: wait_for returns Found exactly when the buffer held the needle at
\* some point between the start of the call and its last look at the buffer,
\* data buffered before the call and data pushed during it alike; Found
\* removes the buffer up to and including the first occurrence, so that a
\* following wait_for can only match what comes after it; Timeout is returned
\* only once the timeout has elapsed and leaves the buffer unchanged.
C24_WaitForFoundIffContained ==
    [][(WaitReturns /\ actions[act_i].kind = "Expect") =>
          LET needle == actions[act_i].needles[1]
              starts == {k \in 1 .. Len(mon_buffer) - Len(needle) + 1 :
                            SubSeq(mon_buffer, k, k + Len(needle) - 1) = needle}
          IN  /\ wait_result' \in {<<"Found", 0>>, <<"Timeout">>}
              /\ (wait_result' = <<"Found", 0>>) <=> contained
              /\ wait_result' = <<"Found", 0>> =>
                     /\ starts # {}
                     /\ \E k \in starts :
                            /\ \A j \in starts : k <= j
                            /\ mon_buffer' = SubSeq(mon_buffer, k + Len(needle),
                                                    Len(mon_buffer))
              /\ wait_result' = <<"Timeout">> =>
                     /\ expired
                     /\ starts = {}
                     /\ mon_buffer' = mon_buffer]_vars

\* the first wait_for consumed the only occurrence, and the wait_for with
\* timeout 0 that followed it timed out on what was left
C24_Witness ==
    /\ actions = <<Expect(OK_MARKER, LOGIN_EXPECT_TIMEOUT),
                   Expect(OK_MARKER, 0)>>
    /\ guest_text = <<"x", "O", "K", "x">>
    /\ act_i = 2
    /\ wait_result = <<"Timeout">>
    /\ mon_buffer = <<"x">>

\* C25: wait_for_any returns Found(i) for the needle whose first occurrence
\* starts earliest in the buffer and removes the buffer up to and including
\* that occurrence; with [success, failure] it returns Found(1) whenever the
\* failure marker occurs in the buffer before the success marker or without
\* it.
C25_WaitForAnyEarliest ==
    [][(/\ WaitReturns
        /\ actions[act_i].kind = "ExpectEither"
        /\ wait_result'[1] = "Found") =>
          LET ns == actions[act_i].needles
              i == wait_result'[2] + 1
              first(k) == Find(mon_buffer, ns[k])
              present == {k \in 1 .. Len(ns) : first(k) > 0}
          IN  /\ i \in present
              /\ \A k \in present : first(i) <= first(k)
              /\ mon_buffer' = SubSeq(mon_buffer, first(i) + Len(ns[i]),
                                      Len(mon_buffer))
              /\ (2 \in present /\ (1 \in present => first(2) < first(1)))
                     => i = 2]_vars

\* the failure marker came before the success marker: Found(1), and the
\* success marker is still in the buffer
C25_Witness ==
    /\ guest_text = <<"F", "L", "x", "O", "K">>
    /\ guest_pos = 5
    /\ wait_result = <<"Found", 1>>
    /\ mon_buffer = <<"x", "O", "K">>
\* ------------------------------------------- the login of a VM run
\* run_vm_with_io builds the list the login thread executes: the prelude,
\* the mounts of the directory shares, then the caller's actions.

SHARED_DIRECTORIES_TAG == "shared"

\* the two commands that bind each share to its guest directory
RECURSIVE ShareMounts(_)
ShareMounts(shares) ==
    IF shares = <<>> THEN <<>>
    ELSE LET share == Head(shares)
             staging == <<"/mnt/shared/", share.tag>>
         IN  <<Send(<<"mkdir -p ", share.guest>>),
               Send(<<"mount --bind ">> \o staging \o <<" ", share.guest>>)>>
             \o ShareMounts(Tail(shares))

LoginPrelude ==
    <<Expect(LOGIN_PROMPT, LOGIN_EXPECT_TIMEOUT),
      Send(<<"root">>),
      Expect(SHELL_PROMPT, LOGIN_EXPECT_TIMEOUT)>>

all_login_actions(directory_shares, login_actions) ==
    LoginPrelude
    \o (IF directory_shares # <<>>
        THEN <<Send(<<"mkdir -p /mnt/shared">>),
               Send(<<"mount -t virtiofs ", SHARED_DIRECTORIES_TAG,
                      " /mnt/shared">>)>>
             \o ShareMounts(directory_shares)
        ELSE <<>>)
    \o login_actions

\* the shares a run is started with: none, or the project directory
ProjectShare == [tag |-> "project_1f", guest |-> "/root/project"]
LoginShares == {<<>>, <<ProjectShare>>}

\* what callers append: nothing, a set-up command, a provisioning script
\* with its two markers followed by a command
LoginCallerActions ==
    {<<>>,
     <<Send(<<"setup">>)>>,
     <<Send(<<"provision">>),
       ExpectEither(OK_MARKER, FAIL_MARKER, LOGIN_EXPECT_TIMEOUT),
       Send(<<"poweroff">>)>>}

\* what the guest prints: nothing, the login prompt only, both prompts, both
\* prompts and then a marker
LoginGuestTexts ==
    {<<>>,
     LOGIN_PROMPT,
     LOGIN_PROMPT \o SHELL_PROMPT,
     LOGIN_PROMPT \o SHELL_PROMPT \o OK_MARKER,
     LOGIN_PROMPT \o SHELL_PROMPT \o FAIL_MARKER}

LoginInit ==
    /\ MgrIdle
    /\ SessIdle
    /\ IoIdle
    /\ MountIdle
    /\ HookIdle
    /\ FsIdle
    /\ DiskIdle
    /\ ProvIdle
    /\ \E sh \in LoginShares, ca \in LoginCallerActions :
           actions = all_login_actions(sh, ca)
    /\ guest_text \in LoginGuestTexts
    /\ RunBegins

LoginSpec == LoginInit /\ [][MonNext]_vars

\* C26: an Expect that times out, or an ExpectEither that sees its failure
\* marker or times out, makes the login thread send exactly one message and
\* end at that action, with nothing enqueued for the guest after it; and a run
\* that has returned after such a message returns it as its error, having
\* asked the VM to stop unless the VM had stopped already.
C26_FailureStopsAndSurfaces ==
    /\ Len(vm_output) <= 1
    /\ vm_output # <<>> =>
           /\ th_pc = "returned"
           /\ act_i = vm_output[1].action
           /\ actions[act_i].kind \in {"Expect", "ExpectEither"}
           /\ Len(input_q) =
                  Cardinality({k \in 1 .. act_i - 1 :
                                   actions[k].kind = "Send"})
    /\ (run_pc = "done" /\ vm_output # <<>>) =>
           /\ exit_result = <<"Err", vm_output[1]>>
           /\ stop_requested \/ vm_state = "Stopped"

\* the commands of the first n actions of the list, as the guest receives
\* them
RECURSIVE C27_SentBy(_, _)
C27_SentBy(acts, n) ==
    IF n = 0 THEN <<>>
    ELSE IF acts[n].kind = "Send"
         THEN Append(C27_SentBy(acts, n - 1), acts[n].text \o <<"\n">>)
         ELSE C27_SentBy(acts, n - 1)

\* the lists a run can execute, written out: the prelude, the four mount
\* commands of the project share when it is shared, the caller's actions
C27_Lists ==
    LET prelude == <<Expect(<<"login", ": ">>, 120), Send(<<"root">>),
                     Expect(<<"~", "#">>, 120)>>
        mounts == <<Send(<<"mkdir -p /mnt/shared">>),
                    Send(<<"mount -t virtiofs ", "shared", " /mnt/shared">>),
                    Send(<<"mkdir -p ", "/root/project">>),
                    Send(<<"mount --bind ", "/mnt/shared/", "project_1f", " ",
                           "/root/project">>)>>
    IN  {prelude \o m \o ca : m \in {<<>>, mounts}, ca \in LoginCallerActions}

\* C27: the login actions run strictly in the order of the list, which is
\* the prelude, then the share mounts, then the caller's actions: the thread
\* moves from an action to the next one only, past an Expect only when it
\* matched, and what has been enqueued for the guest is at every moment the
\* commands of the actions already passed, in order, each with one newline.
C27_LoginActionsInOrder ==
    [][/\ actions' = actions
       /\ actions \in C27_Lists
       /\ act_i' \in {act_i, act_i + 1}
       /\ act_i' = act_i + 1 =>
              \/ actions[act_i].kind = "Send" /\ th_pc = "next"
              \/ /\ actions[act_i].kind # "Send"
                 /\ th_pc = "check"
                 /\ wait_result' = <<"Found", 0>>
                 /\ Find(mon_buffer, actions[act_i].needles[1]) > 0
       /\ input_q' = C27_SentBy(actions, act_i' - 1)]_vars

\* the whole list was executed on a run with the project share and a caller
\* command: root, the four mount commands and the caller's command reached
\* the guest
C27_Witness ==
    /\ actions = all_login_actions(<<ProjectShare>>, <<Send(<<"setup">>)>>)
    /\ th_pc = "returned"
    /\ act_i = Len(actions) + 1
    /\ vm_output = <<>>
    /\ Len(input_q) = 6
    /\ input_q[1] = <<"root", "\n">>
    /\ input_q[6] = <<"setup", "\n">>
\* ------------------------------------------------- .vibebox/instance.toml
\* src/src/instance.rs.  The document is a sequence of <<key, value>> lines.
\* The supervisor process runs touch_last_active on the instance directory
\* (src/src/bin/vibebox-supervisor.rs); the client polls the file in
\* wait_for_vm_ipv4.  Both go through load_or_create_instance_config and
\* write_instance_config.

\* polls of wait_for_vm_ipv4 before its timeout
MaxFsPolls == 2

DEFAULT_SSH_USER == "vibecoder"

\* the InstanceConfig of a file that does not exist, and of an empty document
EmptyInstanceConfig ==
    [id |-> "", ssh_user |-> DEFAULT_SSH_USER, sudo_password |-> "",
     last_active |-> None, vm_ipv4 |-> None]

HasKey(lines, key) == \E i \in 1 .. Len(lines) : lines[i][1] = key
ValueOf(lines, key) ==
    lines[CHOOSE i \in 1 .. Len(lines) : lines[i][1] = key][2]

\* toml::from_str::<InstanceConfig>: every field has a serde default
from_str(lines) ==
    [id |-> IF HasKey(lines, "id") THEN ValueOf(lines, "id") ELSE "",
     ssh_user |-> IF HasKey(lines, "ssh_user")
                  THEN ValueOf(lines, "ssh_user") ELSE DEFAULT_SSH_USER,
     sudo_password |-> IF HasKey(lines, "sudo_password")
                       THEN ValueOf(lines, "sudo_password") ELSE "",
     last_active |-> IF HasKey(lines, "last_active")
                     THEN Some(ValueOf(lines, "last_active")) ELSE None,
     vm_ipv4 |-> IF HasKey(lines, "vm_ipv4")
                 THEN Some(ValueOf(lines, "vm_ipv4")) ELSE None]

\* toml::to_string_pretty: the strings always, the options when they are Some
to_string_pretty(config) ==
    <<<<"id", config.id>>, <<"ssh_user", config.ssh_user>>,
      <<"sudo_password", config.sudo_password>>>>
    \o (IF IsSome(config.last_active)
        THEN <<<<"last_active", Unwrap(config.last_active)>>>> ELSE <<>>)
    \o (IF IsSome(config.vm_ipv4)
        THEN <<<<"vm_ipv4", Unwrap(config.vm_ipv4)>>>> ELSE <<>>)

\* s.trim().is_empty()
IsBlank(s) == s \in {"", " "}

\* Uuid::now_v7() and generate_password(): a value nobody generated before
NewUuid(p, k) ==
    IF p = "supervisor" THEN <<"uuid-s1", "uuid-s2">>[k]
    ELSE <<"uuid-c1", "uuid-c2", "uuid-c3", "uuid-c4", "uuid-c5">>[k]
NewPassword(p, k) ==
    IF p = "supervisor" THEN <<"pw-s1", "pw-s2">>[k]
    ELSE <<"pw-c1", "pw-c2", "pw-c3", "pw-c4", "pw-c5">>[k]

\* the fields load_or_create_instance_config fills in
FilledIn(config, p, k) ==
    [config EXCEPT
        !.ssh_user = IF IsBlank(@) THEN DEFAULT_SSH_USER ELSE @,
        !.id = IF IsBlank(@) THEN NewUuid(p, k) ELSE @,
        !.sudo_password = IF IsBlank(@) THEN NewPassword(p, k) ELSE @]

\* File::create: the file exists and is empty
Truncated(old, data) == <<>>

\* write_all from offset 0 of the writer's descriptor: the data, followed by
\* what another writer had put beyond its length
Overwritten(old, data) == data \o SubSeq(old, Len(data) + 1, Len(old))

\* load_or_create_instance_config, first half: the file is read and parsed
\* if it exists
LoadRead(p) ==
    /\ f_pc[p] = "load"
    /\ IF toml_exists
       THEN /\ f_raw' = [f_raw EXCEPT ![p] = Some(toml_lines)]
            /\ f_cfg' = [f_cfg EXCEPT ![p] = from_str(toml_lines)]
       ELSE /\ f_raw' = [f_raw EXCEPT ![p] = None]
            /\ f_cfg' = [f_cfg EXCEPT ![p] = EmptyInstanceConfig]
    /\ f_pc' = [f_pc EXCEPT ![p] = "fix"]
    /\ UNCHANGED <<toml_exists, toml_lines, toml_history, f_next, f_polls,
                   f_gen>>
    /\ UNCHANGED <<mgrVars, hookVars, monVars, diskVars, provVars, mountVars, ioVars, sessVars>>

\* load_or_create_instance_config, second half: empty fields are filled in,
\* and the configuration is written if one was or if the file does not exist
LoadFix(p) ==
    /\ f_pc[p] = "fix"
    /\ LET config == FilledIn(f_cfg[p], p, f_gen[p] + 1)
           changed == config # f_cfg[p]
       IN  /\ f_cfg' = [f_cfg EXCEPT ![p] = config]
           /\ f_gen' = [f_gen EXCEPT ![p] = IF changed THEN @ + 1 ELSE @]
           /\ f_next' = [f_next EXCEPT
                            ![p] = IF p = "supervisor" THEN "touch"
                                   ELSE "polled"]
           /\ f_pc' = [f_pc EXCEPT
                          ![p] = IF ~toml_exists \/ changed THEN "create"
                                 ELSE f_next'[p]]
    /\ UNCHANGED <<toml_exists, toml_lines, toml_history, f_raw, f_polls>>
    /\ UNCHANGED <<mgrVars, hookVars, monVars, diskVars, provVars, mountVars, ioVars, sessVars>>

\* touch_last_active after its load: last_active is set, the file is written
TouchLastActive(p) ==
    /\ f_pc[p] = "touch"
    /\ f_cfg' = [f_cfg EXCEPT ![p].last_active = Some("now")]
    /\ f_pc' = [f_pc EXCEPT ![p] = "create"]
    /\ f_next' = [f_next EXCEPT ![p] = "done"]
    /\ UNCHANGED <<toml_exists, toml_lines, toml_history, f_raw, f_polls,
                   f_gen>>
    /\ UNCHANGED <<mgrVars, hookVars, monVars, diskVars, provVars, mountVars, ioVars, sessVars>>

\* write_instance_config, fs::write, first half: File::create on the path
WriteCreate(p) ==
    /\ f_pc[p] = "create"
    /\ toml_exists' = TRUE
    /\ toml_lines' = Truncated(toml_lines, to_string_pretty(f_cfg[p]))
    /\ f_pc' = [f_pc EXCEPT ![p] = "write"]
    /\ UNCHANGED <<toml_history, f_cfg, f_raw, f_next, f_polls, f_gen>>
    /\ UNCHANGED <<mgrVars, hookVars, monVars, diskVars, provVars, mountVars, ioVars, sessVars>>

\* write_instance_config, fs::write, second half: write_all of the document;
\* set_permissions changes no content
WriteAll(p) ==
    /\ f_pc[p] = "write"
    /\ toml_lines' = Overwritten(toml_lines, to_string_pretty(f_cfg[p]))
    /\ toml_history' = toml_history \cup {to_string_pretty(f_cfg[p])}
    /\ f_pc' = [f_pc EXCEPT ![p] = f_next[p]]
    /\ UNCHANGED <<toml_exists, f_cfg, f_raw, f_next, f_polls, f_gen>>
    /\ UNCHANGED <<mgrVars, hookVars, monVars, diskVars, provVars, mountVars, ioVars, sessVars>>

\* wait_for_vm_ipv4 after a load: Ok with an address, an error after the
\* timeout, another poll after the sleep otherwise
WaitForVmIpv4(p) ==
    /\ f_pc[p] = "polled"
    /\ IF IsSome(f_cfg[p].vm_ipv4) \/ f_polls[p] >= MaxFsPolls
       THEN /\ f_pc' = [f_pc EXCEPT ![p] = "done"]
            /\ UNCHANGED f_polls
       ELSE /\ f_pc' = [f_pc EXCEPT ![p] = "load"]
            /\ f_polls' = [f_polls EXCEPT ![p] = @ + 1]
    /\ UNCHANGED <<toml_exists, toml_lines, toml_history, f_cfg, f_raw,
                   f_next, f_gen>>
    /\ UNCHANGED <<mgrVars, hookVars, monVars, diskVars, provVars, mountVars, ioVars, sessVars>>

FsNext ==
    \E p \in FsProcs :
        \/ LoadRead(p)
        \/ LoadFix(p)
        \/ TouchLastActive(p)
        \/ WriteCreate(p)
        \/ WriteAll(p)
        \/ WaitForVmIpv4(p)

\* the documents a start finds: written by an earlier run, without and with
\* the guest's address
StoredConfig ==
    [id |-> "uuid-0", ssh_user |-> DEFAULT_SSH_USER,
     sudo_password |-> "pw-0", last_active |-> None, vm_ipv4 |-> None]
StoredDocuments ==
    {to_string_pretty(StoredConfig),
     to_string_pretty([StoredConfig EXCEPT !.last_active = Some("before")]),
     to_string_pretty([StoredConfig EXCEPT !.vm_ipv4 = Some("10.0.42.7")])}

\* the supervisor process starts and a client polls; the file is absent or
\* holds a complete document
FsInit ==
    /\ MgrIdle
    /\ SessIdle
    /\ IoIdle
    /\ MountIdle
    /\ HookIdle
    /\ MonIdle
    /\ DiskIdle
    /\ ProvIdle
    /\ \/ /\ toml_exists = FALSE
          /\ toml_lines = <<>>
          /\ toml_history = {}
       \/ /\ toml_exists = TRUE
          /\ toml_lines \in StoredDocuments
          /\ toml_history = {toml_lines}
    /\ f_pc = [p \in FsProcs |-> "load"]
    /\ f_cfg = [p \in FsProcs |-> <<>>]
    /\ f_raw = [p \in FsProcs |-> {}]
    /\ f_next = [p \in FsProcs |-> "done"]
    /\ f_polls = [p \in FsProcs |-> 0]
    /\ f_gen = [p \in FsProcs |-> 0]

FsSpec == FsInit /\ [][FsNext]_vars

\* C28: what a process reads from instance.toml is a complete document that
\* the file was given: the one it held at the start or one that a
\* write_instance_config wrote, never an empty or partial one.
C28_ReadersSeeCompleteDocuments ==
    \A p \in FsProcs : f_raw[p] \subseteq toml_history
\* ------------------------------------------------- ensure_instance_disk
\* src/src/vm.rs.  A disk image is the sequence of its blocks and its size
\* the number of them.

\* the largest size, in blocks, of a disk and of a configured disk size
MaxBlocks == 4
\* starts of the VM on one instance directory
MaxDiskCalls == 2

\* set_len on a new file: blocks of zeros
RECURSIVE Zeros(_)
Zeros(n) == IF n <= 0 THEN <<>> ELSE <<"0">> \o Zeros(n - 1)

\* mutant: the existing disk is brought to the configured size
ResizedDisk(disk, target_bytes) ==
    IF target_bytes <= Len(disk) THEN SubSeq(disk, 1, target_bytes)
    ELSE disk \o Zeros(target_bytes - Len(disk))

\* the instance disk that exists is used as it is
ExistingDisk(disk, target_bytes) == disk

\* the disk a call leaves, what it returns and whether it warned
ensure_instance_disk(instance, template, target_bytes) ==
    IF IsSome(instance)
    THEN [disk |-> Some(ExistingDisk(Unwrap(instance), target_bytes)),
          result |-> <<"Ok", FALSE>>,
          warned |-> Len(Unwrap(instance)) # target_bytes]
    ELSE IF target_bytes < Len(template)
    THEN [disk |-> None, result |-> <<"Err", "smaller than base image">>,
          warned |-> FALSE]
    ELSE IF target_bytes = Len(template)
    THEN [disk |-> Some(template), result |-> <<"Ok", FALSE>>,
          warned |-> FALSE]
    ELSE [disk |-> Some(template \o Zeros(target_bytes - Len(template))),
          result |-> <<"Ok", TRUE>>, warned |-> FALSE]

\* one start of the VM: ensure_instance_disk with the configured size
EnsureInstanceDisk(target_bytes) ==
    /\ disk_calls < MaxDiskCalls
    /\ template_raw # <<>>
    /\ LET r == ensure_instance_disk(instance_raw, template_raw, target_bytes)
       IN  /\ instance_raw' = r.disk
           /\ disk_result' = r.result
           /\ disk_warned' = r.warned
    /\ disk_target' = target_bytes
    /\ disk_calls' = disk_calls + 1
    /\ UNCHANGED template_raw
    /\ UNCHANGED <<mgrVars, hookVars, monVars, fsVars, provVars, mountVars, ioVars, sessVars>>

DiskNext == \E t \in 0 .. MaxBlocks : EnsureInstanceDisk(t)

\* a provisioned image of one to three blocks; no instance disk, or one of
\* any size that an earlier start or the user left
DiskInit ==
    /\ MgrIdle
    /\ SessIdle
    /\ IoIdle
    /\ MountIdle
    /\ HookIdle
    /\ MonIdle
    /\ FsIdle
    /\ ProvIdle
    /\ template_raw \in {[i \in 1 .. n |-> "t"] : n \in 1 .. 3}
    /\ instance_raw \in
           {None} \cup {Some([i \in 1 .. n |-> "i"]) : n \in 0 .. MaxBlocks}
    /\ disk_target = 0
    /\ disk_result = <<>>
    /\ disk_warned = FALSE
    /\ disk_calls = 0

DiskSpec == DiskInit /\ [][DiskNext]_vars

\* C29: a call of ensure_instance_disk that finds an instance disk leaves it
\* as it is, blocks and length, whatever the configured size, returns
\* Ok(false) and warns exactly when the size differs; a disk is made only
\* when there is none, of the configured size and beginning with the
\* template; and with no disk and a configured size below the template's the
\* call fails and makes no file.
C29_ExistingDiskUntouched ==
    [][disk_calls' = disk_calls + 1 =>
          /\ IsSome(instance_raw) =>
                 /\ instance_raw' = instance_raw
                 /\ disk_result' = <<"Ok", FALSE>>
                 /\ disk_warned' = (Len(Unwrap(instance_raw)) # disk_target')
          /\ instance_raw' # instance_raw =>
                 /\ instance_raw = None
                 /\ disk_result'[1] = "Ok"
                 /\ disk_target' >= Len(template_raw)
                 /\ Len(Unwrap(instance_raw')) = disk_target'
                 /\ SubSeq(Unwrap(instance_raw'), 1, Len(template_raw))
                        = template_raw
          /\ (instance_raw = None /\ disk_target' < Len(template_raw)) =>
                 /\ instance_raw' = None
                 /\ disk_result'[1] = "Err"
          /\ template_raw' = template_raw]_vars

\* a second start with a smaller configured size found the disk the first
\* start had made, warned and left it
C29_Witness ==
    /\ disk_calls = 2
    /\ IsSome(instance_raw)
    /\ Len(Unwrap(instance_raw)) = 3
    /\ disk_target = 1
    /\ disk_warned
    /\ disk_result = <<"Ok", FALSE>>
    /\ Unwrap(instance_raw)[1] = "t"
\* ------------------------------------------------- ensure_default_image
\* src/src/vm.rs.  The provisioning run is a VM run on default.raw with the
\* provisioning script and its two markers as the caller's actions.

PROVISION_EXPECT_TIMEOUT == 900
PROVISION_OK == <<"VIBEBOX_PROVISION_", "OK">>
PROVISION_FAILED == <<"VIBEBOX_PROVISION_", "FAILED">>

provision_actions ==
    <<Send(<<"provision.sh">>),
      ExpectEither(PROVISION_OK, PROVISION_FAILED, PROVISION_EXPECT_TIMEOUT)>>

\* the share of the guest's mise cache
MiseShare == [tag |-> "mise_cache", guest |-> "/root/.local/share/mise"]

\* what the guest prints during provisioning: nothing, the login prompt
\* only, both prompts, both prompts and a marker
ProvisionGuestTexts ==
    {<<>>,
     LOGIN_PROMPT,
     LOGIN_PROMPT \o SHELL_PROMPT,
     LOGIN_PROMPT \o SHELL_PROMPT \o PROVISION_OK,
     LOGIN_PROMPT \o SHELL_PROMPT \o PROVISION_FAILED}

\* the error of a run_vm_with_io that returned before its run loop: the VM
\* did not start
START_ERROR == [kind |-> "Failed to start VM", action |-> 0]
StartFailed == exit_result = <<"Err", START_ERROR>>

\* fs::remove_file(default_raw)
RemovedAfterFailure(image) == None

\* ensure_default_image up to the start of the VM: an image that exists is
\* returned; otherwise the base image is made sure of, copied to default.raw,
\* and the provisioning run begins, unless the VM fails to start
EnsureDefaultImageCall ==
    /\ prov_pc = "call"
    /\ default_at_call' = default_raw
    /\ IF IsSome(default_raw)
       THEN /\ prov_pc' = "returned"
            /\ prov_result' = <<"Ok">>
            /\ UNCHANGED <<default_raw, monVars>>
       ELSE \/ /\ prov_pc' = "returned"
               /\ prov_result' = <<"Err", [kind |-> "base image",
                                            action |-> 0]>>
               /\ UNCHANGED <<default_raw, monVars>>
            \/ /\ prov_pc' = "running"
               /\ default_raw' = Some("copy of the base image")
               /\ exit_result' = <<"Err", START_ERROR>>
               /\ UNCHANGED <<prov_result, guest_text, guest_pos, mon_buffer,
                              actions, act_i, th_pc, expired, notified,
                              wait_result, vm_output, vm_output_read,
                              input_q, vm_state, run_pc, stop_requested,
                              contained>>
            \/ /\ prov_pc' = "running"
               /\ default_raw' = Some("copy of the base image")
               /\ actions' = all_login_actions(<<MiseShare>>,
                                               provision_actions)
               /\ guest_text' \in ProvisionGuestTexts
               /\ guest_pos' = 0
               /\ mon_buffer' = <<>>
               /\ act_i' = 1
               /\ th_pc' = "next"
               /\ expired' = FALSE
               /\ notified' = FALSE
               /\ wait_result' = <<>>
               /\ vm_output' = <<>>
               /\ vm_output_read' = 0
               /\ input_q' = <<>>
               /\ vm_state' = "Running"
               /\ run_pc' = "loop"
               /\ stop_requested' = FALSE
               /\ exit_result' = <<"Ok">>
               /\ contained' = FALSE
               /\ UNCHANGED prov_result
    /\ UNCHANGED <<mgrVars, hookVars, fsVars, diskVars, mountVars, ioVars, sessVars>>

\* ensure_default_image after the run: an error of the run removes
\* default.raw and is returned
EnsureDefaultImageReturn ==
    /\ prov_pc = "running"
    /\ run_pc = "done"
    /\ prov_pc' = "returned"
    /\ IF exit_result[1] = "Err"
       THEN /\ default_raw' = RemovedAfterFailure(default_raw)
            /\ prov_result' = exit_result
       ELSE /\ prov_result' = <<"Ok">>
            /\ UNCHANGED default_raw
    /\ UNCHANGED default_at_call
    /\ UNCHANGED <<mgrVars, hookVars, monVars, fsVars, diskVars, mountVars, ioVars, sessVars>>

ProvisionNext ==
    \/ EnsureDefaultImageCall
    \/ EnsureDefaultImageReturn
    \/ MonNext

\* a start with or without a provisioned image in the cache
ProvisionInit ==
    /\ MgrIdle
    /\ SessIdle
    /\ IoIdle
    /\ MountIdle
    /\ HookIdle
    /\ MonIdle
    /\ FsIdle
    /\ DiskIdle
    /\ default_raw \in {None, Some("provisioned image")}
    /\ default_at_call = None
    /\ prov_pc = "call"
    /\ prov_result = <<>>

ProvisionSpec == ProvisionInit /\ [][ProvisionNext]_vars

\* the provisioning run failed: the VM did not start, or the login thread
\* reported the failure marker or a timeout
ProvisioningFailed == StartFailed \/ vm_output # <<>>

\* C30: when ensure_default_image has returned, an image that was there at
\* the call is still there, Ok was returned and no provisioning ran; and with
\* no image at the call and a provisioning run that failed (start error,
\* failure marker, timeout), default.raw is absent and an error was returned.
C30_FailedProvisioningCleansUp ==
    prov_pc = "returned" =>
        /\ IsSome(default_at_call) =>
               /\ default_raw = default_at_call
               /\ prov_result = <<"Ok">>
               /\ actions = <<>> /\ input_q = <<>> /\ guest_pos = 0
        /\ (default_at_call = None /\ ProvisioningFailed) =>
               /\ default_raw = None
               /\ prov_result[1] = "Err"
\* ---------------------------------------------------- rewrite_mount_spec
\* src/src/vm_manager.rs.  A string is the sequence of its characters; the
\* names that occur in the paths ("home", "usr", a user name's letters)
\* stand for characters of their own.

\* the longest tail of a guest path after one of the prefixes the
\* translation looks at
MaxTail == 2

PROJECT_GUEST_BASE ==
    <<"/", "usr", "/", "local", "/", "vibebox-mounts">>

\* str::split: the parts between the separators, one more than there are
\* separators
RECURSIVE SplitFrom(_, _, _)
SplitFrom(s, sep, part) ==
    IF s = <<>> THEN <<part>>
    ELSE IF Head(s) = sep
         THEN <<part>> \o SplitFrom(Tail(s), sep, <<>>)
         ELSE SplitFrom(Tail(s), sep, Append(part, Head(s)))

split(s, sep) == SplitFrom(s, sep, <<>>)

\* str::strip_prefix
strip_prefix(s, prefix) ==
    IF Len(s) >= Len(prefix) /\ SubSeq(s, 1, Len(prefix)) = prefix
    THEN Some(SubSeq(s, Len(prefix) + 1, Len(s)))
    ELSE None

\* mutant: the base directory is always followed by a slash
RootPathWithSlash(rel) == PROJECT_GUEST_BASE \o <<"/">> \o rel

\* root_path: the base directory, or the base directory, a slash and rel
RootPath(rel) ==
    IF rel = <<>> THEN PROJECT_GUEST_BASE
    ELSE PROJECT_GUEST_BASE \o <<"/">> \o rel

rewrite_mount_spec(spec, ssh_user) ==
    LET parts == split(spec, ":")
        home_prefix == <<"/", "home", "/">> \o ssh_user
    IN  IF Len(parts) < 2 \/ Len(parts) > 3
        THEN [spec |-> spec, link |-> None]
        ELSE
        LET host == parts[1]
            guest == parts[2]
            tilde == strip_prefix(guest, <<"~", "/">>)
            under == strip_prefix(guest, home_prefix \o <<"/">>)
            is_home == \/ guest = <<"~">>
                       \/ IsSome(tilde)
                       \/ guest = home_prefix
                       \/ IsSome(under)
            rel == IF guest = <<"~">> THEN <<>>
                   ELSE IF IsSome(tilde) THEN Unwrap(tilde)
                   ELSE IF guest = home_prefix THEN <<>>
                   ELSE IF IsSome(under) THEN Unwrap(under)
                   ELSE <<>>
            root_path == RootPath(rel)
            target == IF rel = <<>> THEN home_prefix
                      ELSE home_prefix \o <<"/">> \o rel
        IN  IF ~is_home THEN [spec |-> spec, link |-> None]
            ELSE [spec |-> host \o <<":">> \o root_path
                           \o (IF Len(parts) = 3
                               THEN <<":">> \o parts[3] ELSE <<>>),
                  link |-> Some([source |-> root_path, target |-> target])]

\* prepare_mounts_and_links on one spec of the list
RewriteMountSpec ==
    /\ mount_out = <<>>
    /\ mount_out' = <<rewrite_mount_spec(mount_spec, mount_user)>>
    /\ UNCHANGED <<mount_spec, mount_user>>
    /\ UNCHANGED <<mgrVars, hookVars, monVars, fsVars, diskVars, provVars, ioVars, sessVars>>

MountNext == RewriteMountSpec

\* the strings of at most n characters over an alphabet
RECURSIVE StringsUpTo(_, _)
StringsUpTo(alphabet, n) ==
    IF n = 0 THEN {<<>>}
    ELSE LET shorter == StringsUpTo(alphabet, n - 1)
         IN  shorter \cup {Append(t, c) : t \in shorter, c \in alphabet}

MountUsers == {<<"v">>, <<"v", "c">>}

\* guest paths: what the translation looks for, and what is close to it,
\* followed by any short tail
MountGuests ==
    {pre \o tail :
        pre \in {<<>>, <<"~">>, <<"/">>, <<"/", "home">>,
                 <<"/", "home", "/", "v">>, <<"/", "home", "/", "v", "c">>,
                 <<"/", "home", "/", "c">>, <<"/", "opt">>,
                 <<"x", "/", "home", "/", "v">>},
        tail \in StringsUpTo({"/", "~", "c", "d"}, MaxTail)}

MountHosts == {<<>>, <<"/", "src">>, <<"~">>}
MountModes == {<<>>, <<"read-only">>, <<"read-write">>}

\* a spec of one to four parts
MountSpecs ==
    MountHosts
    \cup {h \o <<":">> \o g : h \in MountHosts, g \in MountGuests}
    \cup {h \o <<":">> \o g \o <<":">> \o m :
              h \in MountHosts, g \in MountGuests, m \in MountModes}
    \cup {h \o <<":">> \o g \o <<":">> \o m \o <<":">> \o m :
              h \in {<<"/", "src">>},
              g \in {<<"~">>, <<"/", "opt">>}, m \in MountModes}

MountInit ==
    /\ MgrIdle
    /\ SessIdle
    /\ IoIdle
    /\ HookIdle
    /\ MonIdle
    /\ FsIdle
    /\ DiskIdle
    /\ ProvIdle
    /\ mount_spec \in MountSpecs
    /\ mount_user \in MountUsers
    /\ mount_out = <<>>

MountSpec == MountInit /\ [][MountNext]_vars

\* a guest path under the home of the user, and what follows the home in it
C31_Home(user) == <<"/", "home", "/">> \o user
C31_IsHome(guest, user) ==
    \/ guest = <<"~">>
    \/ Len(guest) >= 2 /\ SubSeq(guest, 1, 2) = <<"~", "/">>
    \/ guest = C31_Home(user)
    \/ /\ Len(guest) > Len(C31_Home(user))
       /\ SubSeq(guest, 1, Len(C31_Home(user)) + 1)
              = C31_Home(user) \o <<"/">>
C31_Rel(guest, user) ==
    IF guest = <<"~">> \/ guest = C31_Home(user) THEN <<>>
    ELSE IF Head(guest) = "~" THEN SubSeq(guest, 3, Len(guest))
    ELSE SubSeq(guest, Len(C31_Home(user)) + 2, Len(guest))
\* a path followed by /rel when there is a rel
C31_With(path, rel) == IF rel = <<>> THEN path ELSE path \o <<"/">> \o rel
\* host:guest or host:guest:mode
C31_Spec(host, guest, mode, three) ==
    host \o <<":">> \o guest \o (IF three THEN <<":">> \o mode ELSE <<>>)

\* C31: a spec host:guest or host:guest:mode whose guest path is ~, ~/rel,
\* /home/<ssh_user> or /home/<ssh_user>/rel is rewritten to the same host
\* and mode with the guest path /usr/local/vibebox-mounts[/rel], with one
\* link from /home/<ssh_user>[/rel] to that path; with any other guest path
\* the spec is returned as it is, with no link.
C31_HomeMountsRewritten ==
    mount_out # <<>> =>
        \A host \in MountHosts, guest \in MountGuests, mode \in MountModes,
           three \in BOOLEAN :
            mount_spec = C31_Spec(host, guest, mode, three) =>
                LET res == mount_out[1]
                    rel == C31_Rel(guest, mount_user)
                    path == C31_With(<<"/", "usr", "/", "local", "/",
                                       "vibebox-mounts">>, rel)
                IN  IF C31_IsHome(guest, mount_user)
                    THEN /\ res.spec = C31_Spec(host, path, mode, three)
                         /\ res.link =
                                {[source |-> path,
                                  target |-> C31_With(C31_Home(mount_user),
                                                      rel)]}
                    ELSE /\ res.spec = mount_spec
                         /\ res.link = {}

\* ~/c with a mode was rewritten for the user vc, and the link made
C31_Witness ==
    /\ mount_user = <<"v", "c">>
    /\ mount_spec = <<"/", "src", ":", "~", "/", "c", ":", "read-only">>
    /\ mount_out # <<>>
    /\ mount_out[1].spec =
           <<"/", "src", ":", "/", "usr", "/", "local", "/",
             "vibebox-mounts", "/", "c", ":", "read-only">>
    /\ mount_out[1].link =
           {[source |-> <<"/", "usr", "/", "local", "/", "vibebox-mounts",
                          "/", "c">>,
             target |-> <<"/", "home", "/", "v", "c", "/", "c">>]}
\* ---------------------------------- the I/O threads and IoContext::shutdown
\* src/src/vm.rs, spawn_vm_io_with_hooks.  Three threads: the stdin
\* forwarder, the guest-output reader (stdout_thread) and the guest-input
\* writer (mux_thread).  A write to the guest, to stdout or to a log ends,
\* with success or with an error; a pipe that is never drained is not
\* modelled.

\* what the surroundings do during a run: input typed, guest output,
\* changes of the IoControl flags, commands of other threads
MaxIoEvents == 3

\* POLLIN of poll(2): there is something to read
Readable(n) == n > 0

\* mutant: the thread that sees the wakeup byte reads it
WakeupDrained(n) == 0

\* no thread reads the wakeup pipe: the byte stays
WakeupAfterPoll(n) == n

\* stdin forwarder, top of the loop: io_control.forward_input()
StdinTop ==
    /\ stdin_pc = "top"
    /\ stdin_pc' = IF io_forward_input THEN "poll" ELSE "poll_wakeup"
    /\ UNCHANGED <<io_wakeup, io_forward_input, io_forward_output,
                   io_raw_mode, io_stdin, io_vm_output, io_input_q,
                   stdout_pc, mux_pc, sd_pc, io_events>>
    /\ UNCHANGED <<mgrVars, hookVars, monVars, fsVars, diskVars, provVars, mountVars, sessVars>>

\* poll_wakeup_only(wakeup, 100) returns: break on the wakeup byte, the loop
\* again after the 100 ms
StdinPollWakeup ==
    /\ stdin_pc = "poll_wakeup"
    /\ stdin_pc' = IF Readable(io_wakeup) THEN "exited" ELSE "top"
    /\ io_wakeup' = WakeupAfterPoll(io_wakeup)
    /\ UNCHANGED <<io_forward_input, io_forward_output, io_raw_mode,
                   io_stdin, io_vm_output, io_input_q, stdout_pc, mux_pc,
                   sd_pc, io_events>>
    /\ UNCHANGED <<mgrVars, hookVars, monVars, fsVars, diskVars, provVars, mountVars, sessVars>>

\* poll_with_wakeup(stdin, wakeup, -1) returns: Shutdown on the wakeup byte,
\* which is looked at first, Ready on input
StdinPoll ==
    /\ stdin_pc = "poll"
    /\ IF Readable(io_wakeup)
       THEN /\ stdin_pc' = "exited"
            /\ io_wakeup' = WakeupAfterPoll(io_wakeup)
            /\ UNCHANGED io_stdin
       ELSE /\ Readable(io_stdin)
            /\ io_stdin' = io_stdin - 1
            /\ stdin_pc' = "ready"
            /\ UNCHANGED io_wakeup
    /\ UNCHANGED <<io_forward_input, io_forward_output, io_raw_mode,
                   io_vm_output, io_input_q, stdout_pc, mux_pc, sd_pc,
                   io_events>>
    /\ UNCHANGED <<mgrVars, hookVars, monVars, fsVars, diskVars, provVars, mountVars, sessVars>>

\* the poll fails or stdin is at its end (Error, Shutdown: break), or it
\* returns with POLLIN on neither descriptor (Spurious: continue)
StdinPollEnds ==
    /\ stdin_pc = "poll"
    /\ \/ stdin_pc' = "exited"
       \/ ~Readable(io_wakeup) /\ stdin_pc' = "top"
    /\ UNCHANGED <<io_wakeup, io_forward_input, io_forward_output,
                   io_raw_mode, io_stdin, io_vm_output, io_input_q,
                   stdout_pc, mux_pc, sd_pc, io_events>>
    /\ UNCHANGED <<mgrVars, hookVars, monVars, fsVars, diskVars, provVars, mountVars, sessVars>>

\* Ready(bytes): without raw mode the bytes are dropped; otherwise what is
\* left after the command lines is sent on input_tx, and a failed send ends
\* the thread
StdinReady ==
    /\ stdin_pc = "ready"
    /\ IF ~io_raw_mode
       THEN stdin_pc' = "top" /\ UNCHANGED io_input_q
       ELSE \/ stdin_pc' = "top" /\ UNCHANGED io_input_q
            \/ /\ mux_pc # "exited"
               /\ io_input_q' = Append(io_input_q, "Bytes")
               /\ stdin_pc' = "top"
            \/ /\ mux_pc = "exited"
               /\ stdin_pc' = "exited"
               /\ UNCHANGED io_input_q
    /\ UNCHANGED <<io_wakeup, io_forward_input, io_forward_output,
                   io_raw_mode, io_stdin, io_vm_output, stdout_pc, mux_pc,
                   sd_pc, io_events>>
    /\ UNCHANGED <<mgrVars, hookVars, monVars, fsVars, diskVars, provVars, mountVars, sessVars>>

\* guest-output reader: poll_with_wakeup(vm_output, wakeup, 100) returns
\* Shutdown on the wakeup byte or Ready on output; after the 100 ms the loop
\* polls again
StdoutPoll ==
    /\ stdout_pc = "poll"
    /\ IF Readable(io_wakeup)
       THEN /\ stdout_pc' = "exited"
            /\ io_wakeup' = WakeupAfterPoll(io_wakeup)
            /\ UNCHANGED io_vm_output
       ELSE /\ Readable(io_vm_output)
            /\ io_vm_output' = io_vm_output - 1
            /\ stdout_pc' = "ready"
            /\ UNCHANGED io_wakeup
    /\ UNCHANGED <<io_forward_input, io_forward_output, io_raw_mode,
                   io_stdin, io_input_q, stdin_pc, mux_pc, sd_pc, io_events>>
    /\ UNCHANGED <<mgrVars, hookVars, monVars, fsVars, diskVars, provVars, mountVars, sessVars>>

\* the poll fails or the guest closed its output: break
StdoutPollEnds ==
    /\ stdout_pc = "poll"
    /\ stdout_pc' = "exited"
    /\ UNCHANGED <<io_wakeup, io_forward_input, io_forward_output,
                   io_raw_mode, io_stdin, io_vm_output, io_input_q,
                   stdin_pc, mux_pc, sd_pc, io_events>>
    /\ UNCHANGED <<mgrVars, hookVars, monVars, fsVars, diskVars, provVars, mountVars, sessVars>>

\* Ready(bytes): with forward_output raw mode is entered and the bytes are
\* written to stdout, a failed write ends the thread; then the monitor and
\* the hook get the bytes
StdoutReady ==
    /\ stdout_pc = "ready"
    /\ IF io_forward_output
       THEN /\ io_raw_mode' \in {io_raw_mode, TRUE}
            /\ stdout_pc' \in {"poll", "exited"}
       ELSE /\ stdout_pc' = "poll"
            /\ UNCHANGED io_raw_mode
    /\ UNCHANGED <<io_wakeup, io_forward_input, io_forward_output, io_stdin,
                   io_vm_output, io_input_q, stdin_pc, mux_pc, sd_pc,
                   io_events>>
    /\ UNCHANGED <<mgrVars, hookVars, monVars, fsVars, diskVars, provVars, mountVars, sessVars>>

\* guest-input writer: input_rx.recv() returns
MuxRecv ==
    /\ mux_pc = "recv"
    /\ io_input_q # <<>>
    /\ io_input_q' = Tail(io_input_q)
    /\ mux_pc' = IF Head(io_input_q) = "Shutdown" THEN "exited" ELSE "write"
    /\ UNCHANGED <<io_wakeup, io_forward_input, io_forward_output,
                   io_raw_mode, io_stdin, io_vm_output, stdin_pc, stdout_pc,
                   sd_pc, io_events>>
    /\ UNCHANGED <<mgrVars, hookVars, monVars, fsVars, diskVars, provVars, mountVars, sessVars>>

\* vm_writer.write_all(&data): a failed write ends the thread
MuxWrite ==
    /\ mux_pc = "write"
    /\ mux_pc' \in {"recv", "exited"}
    /\ UNCHANGED <<io_wakeup, io_forward_input, io_forward_output,
                   io_raw_mode, io_stdin, io_vm_output, io_input_q,
                   stdin_pc, stdout_pc, sd_pc, io_events>>
    /\ UNCHANGED <<mgrVars, hookVars, monVars, fsVars, diskVars, provVars, mountVars, sessVars>>

\* the surroundings: the user types, the guest prints, a command changes a
\* flag of the IoControl or asks for the terminal to be restored, another
\* thread sends bytes for the guest
IoSurroundings ==
    /\ io_events < MaxIoEvents
    /\ io_events' = io_events + 1
    /\ \/ io_stdin' = io_stdin + 1
          /\ UNCHANGED <<io_vm_output, io_forward_input, io_forward_output,
                         io_raw_mode, io_input_q>>
       \/ io_vm_output' = io_vm_output + 1
          /\ UNCHANGED <<io_stdin, io_forward_input, io_forward_output,
                         io_raw_mode, io_input_q>>
       \/ io_forward_input' = ~io_forward_input
          /\ UNCHANGED <<io_stdin, io_vm_output, io_forward_output,
                         io_raw_mode, io_input_q>>
       \/ io_forward_output' = ~io_forward_output
          /\ UNCHANGED <<io_stdin, io_vm_output, io_forward_input,
                         io_raw_mode, io_input_q>>
       \/ io_raw_mode' = FALSE
          /\ UNCHANGED <<io_stdin, io_vm_output, io_forward_input,
                         io_forward_output, io_input_q>>
       \/ /\ mux_pc # "exited"
          /\ io_input_q' = Append(io_input_q, "Bytes")
          /\ UNCHANGED <<io_stdin, io_vm_output, io_forward_input,
                         io_forward_output, io_raw_mode>>
    /\ UNCHANGED <<io_wakeup, stdin_pc, stdout_pc, mux_pc, sd_pc>>
    /\ UNCHANGED <<mgrVars, hookVars, monVars, fsVars, diskVars, provVars, mountVars, sessVars>>

\* the run ends: io_ctx.shutdown() is called
ShutdownCalled ==
    /\ sd_pc = "idle"
    /\ sd_pc' = "send"
    /\ UNCHANGED <<io_wakeup, io_forward_input, io_forward_output,
                   io_raw_mode, io_stdin, io_vm_output, io_input_q,
                   stdin_pc, stdout_pc, mux_pc, io_events>>
    /\ UNCHANGED <<mgrVars, hookVars, monVars, fsVars, diskVars, provVars, mountVars, sessVars>>

\* shutdown: input_tx.send(VmInput::Shutdown), whose failure is ignored
ShutdownSend ==
    /\ sd_pc = "send"
    /\ sd_pc' = "wake"
    /\ io_input_q' = IF mux_pc # "exited"
                     THEN Append(io_input_q, "Shutdown") ELSE io_input_q
    /\ UNCHANGED <<io_wakeup, io_forward_input, io_forward_output,
                   io_raw_mode, io_stdin, io_vm_output, stdin_pc, stdout_pc,
                   mux_pc, io_events>>
    /\ UNCHANGED <<mgrVars, hookVars, monVars, fsVars, diskVars, provVars, mountVars, sessVars>>

\* shutdown: one byte is written to the wakeup pipe
ShutdownWake ==
    /\ sd_pc = "wake"
    /\ sd_pc' = "join_stdin"
    /\ io_wakeup' = io_wakeup + 1
    /\ UNCHANGED <<io_forward_input, io_forward_output, io_raw_mode,
                   io_stdin, io_vm_output, io_input_q, stdin_pc, stdout_pc,
                   mux_pc, io_events>>
    /\ UNCHANGED <<mgrVars, hookVars, monVars, fsVars, diskVars, provVars, mountVars, sessVars>>

\* shutdown: the three joins, in the order of the source
ShutdownJoin ==
    /\ \/ sd_pc = "join_stdin" /\ stdin_pc = "exited"
          /\ sd_pc' = "join_stdout"
       \/ sd_pc = "join_stdout" /\ stdout_pc = "exited"
          /\ sd_pc' = "join_mux"
       \/ sd_pc = "join_mux" /\ mux_pc = "exited"
          /\ sd_pc' = "returned"
    /\ UNCHANGED <<io_wakeup, io_forward_input, io_forward_output,
                   io_raw_mode, io_stdin, io_vm_output, io_input_q,
                   stdin_pc, stdout_pc, mux_pc, io_events>>
    /\ UNCHANGED <<mgrVars, hookVars, monVars, fsVars, diskVars, provVars, mountVars, sessVars>>

StdinStep == StdinTop \/ StdinPollWakeup \/ StdinPoll \/ StdinReady
StdoutStep == StdoutPoll \/ StdoutReady
MuxStep == MuxRecv \/ MuxWrite
ShutdownStep == ShutdownSend \/ ShutdownWake \/ ShutdownJoin

IoNext ==
    \/ StdinStep
    \/ StdinPollEnds
    \/ StdoutStep
    \/ StdoutPollEnds
    \/ MuxStep
    \/ IoSurroundings
    \/ ShutdownCalled
    \/ ShutdownStep

\* the three threads have been spawned; IoControl::new() or a caller's
\* IoControl with other flags
IoInit ==
    /\ MgrIdle
    /\ SessIdle
    /\ HookIdle
    /\ MonIdle
    /\ FsIdle
    /\ DiskIdle
    /\ ProvIdle
    /\ MountIdle
    /\ io_wakeup = 0
    /\ io_forward_input \in BOOLEAN
    /\ io_forward_output \in BOOLEAN
    /\ io_raw_mode = FALSE
    /\ io_stdin = 0
    /\ io_vm_output = 0
    /\ io_input_q = <<>>
    /\ stdin_pc = "top"
    /\ stdout_pc = "poll"
    /\ mux_pc = "recv"
    /\ sd_pc = "idle"
    /\ io_events = 0

\* a thread that can take a step takes one, and so does shutdown; a poll
\* that fails and the surroundings are under no obligation
IoFairness ==
    /\ WF_vars(StdinStep)
    /\ WF_vars(StdoutStep)
    /\ WF_vars(MuxStep)
    /\ WF_vars(ShutdownStep)

IoLiveSpec == IoInit /\ [][IoNext]_vars /\ IoFairness

IoThreadsExited ==
    stdin_pc = "exited" /\ stdout_pc = "exited" /\ mux_pc = "exited"

MaxSessOps == 5

\* project directories, which exist and are absolute
SessDirectories == {"a", "b"}

\* the ids a caller may pass: those handed out and one that never was
SessIds == 1 .. MaxSessOps

\* index.sessions.iter().position(..): 0 stands for None
PositionIn(sessions, found(_)) ==
    IF \E i \in DOMAIN sessions : found(sessions[i])
    THEN CHOOSE i \in DOMAIN sessions :
             /\ found(sessions[i])
             /\ \A j \in 1 .. (i - 1) : ~found(sessions[j])
    ELSE 0

\* Vec::remove(pos)
RemoveAt(sessions, pos) ==
    SubSeq(sessions, 1, pos - 1) \o SubSeq(sessions, pos + 1, Len(sessions))

\* the record create_session and get_or_create_session make
NewSession(directory) ==
    [id |-> sess_next_id, directory |-> directory, last_active |-> sess_now,
     ref_count |-> 1]

\* self.instance_dir_for(&directory).is_dir()
InstanceDirIsDir(directory) == directory \in sess_dirs

\* what a call leaves for its caller to see
SessCall(op, id, result, pos) ==
    [op |-> op, id |-> id, result |-> result, before |-> sess_index,
     dir_present |-> pos # 0 /\ InstanceDirIsDir(sess_index[pos].directory)]

\* a fresh session is pushed and the index written
PushNewSession(sessions, directory) ==
    /\ sess_index' = Append(sessions, NewSession(directory))
    /\ sess_dirs' = sess_dirs \cup {directory}
    /\ sess_next_id' = sess_next_id + 1
    /\ sess_incs' = Append(sess_incs, 0)
    /\ sess_decs' = Append(sess_decs, 0)

\* create_session(directory)
CreateSession(directory) ==
    /\ sess_now < MaxSessOps
    /\ sess_now' = sess_now + 1
    /\ LET pos == PositionIn(sess_index, LAMBDA r : r.directory = directory)
       IN  IF pos # 0
           THEN /\ sess_last' = SessCall("create", sess_index[pos].id,
                                         "DirectoryAlreadyHasSession", pos)
                /\ UNCHANGED <<sess_index, sess_dirs, sess_next_id,
                               sess_incs, sess_decs>>
           ELSE /\ sess_last' = SessCall("create", sess_next_id, "Ok", 0)
                /\ PushNewSession(sess_index, directory)
    /\ UNCHANGED <<mgrVars, hookVars, monVars, fsVars, diskVars, provVars,
                   mountVars, ioVars>>

\* get_or_create_session(directory): a session with that directory and an
\* instance directory gains one reference; one without an instance
\* directory is dropped and a fresh one made
GetOrCreateSession(directory) ==
    /\ sess_now < MaxSessOps
    /\ sess_now' = sess_now + 1
    /\ LET pos == PositionIn(sess_index, LAMBDA r : r.directory = directory)
       IN  IF pos # 0 /\ InstanceDirIsDir(sess_index[pos].directory)
           THEN LET session == sess_index[pos]
                    updated == [session EXCEPT
                                   !.ref_count = saturating_add(@, 1),
                                   !.last_active = sess_now]
                IN  /\ sess_index' = [sess_index EXCEPT ![pos] = updated]
                    /\ sess_incs' = [sess_incs EXCEPT ![session.id] = @ + 1]
                    /\ sess_last' = SessCall("get_or_create", session.id,
                                             "Ok", pos)
                    /\ UNCHANGED <<sess_dirs, sess_next_id, sess_decs>>
           ELSE /\ sess_last' = SessCall("get_or_create", sess_next_id,
                                         "Ok", pos)
                /\ PushNewSession(IF pos # 0 THEN RemoveAt(sess_index, pos)
                                  ELSE sess_index, directory)
    /\ UNCHANGED <<mgrVars, hookVars, monVars, fsVars, diskVars, provVars,
                   mountVars, ioVars>>

\* mutant: decrement_ref_count without its test
NoUnderflowTest(session) == FALSE

\* decrement_ref_count: if session.ref_count == 0
Underflow(session) == session.ref_count = 0

\* update_session(id, update): SessionNotFound for an id not in the index
\* and, with the record removed, for one whose instance directory is gone;
\* an error of the closure returns before write_index
UpdateSession(op, id) ==
    /\ sess_now < MaxSessOps
    /\ sess_now' = sess_now + 1
    /\ LET pos == PositionIn(sess_index, LAMBDA r : r.id = id)
       IN  /\ sess_last' =
                  SessCall(op, id,
                           IF pos = 0 THEN "SessionNotFound"
                           ELSE IF ~InstanceDirIsDir(sess_index[pos].directory)
                           THEN "SessionNotFound"
                           ELSE IF op = "decrement"
                                   /\ Underflow(sess_index[pos])
                           THEN "RefCountUnderflow"
                           ELSE "Ok", pos)
           /\ IF pos = 0
              THEN UNCHANGED <<sess_index, sess_incs, sess_decs>>
              ELSE IF ~InstanceDirIsDir(sess_index[pos].directory)
              THEN /\ sess_index' = RemoveAt(sess_index, pos)
                   /\ UNCHANGED <<sess_incs, sess_decs>>
              ELSE IF op = "increment"
              THEN /\ sess_index' =
                          [sess_index EXCEPT
                              ![pos].ref_count = saturating_add(@, 1),
                              ![pos].last_active = sess_now]
                   /\ sess_incs' = [sess_incs EXCEPT ![id] = @ + 1]
                   /\ UNCHANGED sess_decs
              ELSE IF Underflow(sess_index[pos])
              THEN UNCHANGED <<sess_index, sess_incs, sess_decs>>
              ELSE /\ sess_index' =
                          [sess_index EXCEPT
                              ![pos].ref_count = @ - 1,
                              ![pos].last_active = sess_now]
                   /\ sess_decs' = [sess_decs EXCEPT ![id] = @ + 1]
                   /\ UNCHANGED sess_incs
    /\ UNCHANGED <<sess_dirs, sess_next_id>>
    /\ UNCHANGED <<mgrVars, hookVars, monVars, fsVars, diskVars, provVars,
                   mountVars, ioVars>>

IncrementRefCount(id) == UpdateSession("increment", id)

DecrementRefCount(id) == UpdateSession("decrement", id)

\* somebody removes a project's .vibebox directory
RemoveInstanceDir(directory) ==
    /\ sess_now < MaxSessOps
    /\ directory \in sess_dirs
    /\ sess_dirs' = sess_dirs \ {directory}
    /\ UNCHANGED <<sess_index, sess_next_id, sess_now, sess_last, sess_incs,
                   sess_decs>>
    /\ UNCHANGED <<mgrVars, hookVars, monVars, fsVars, diskVars, provVars,
                   mountVars, ioVars>>

SessNext ==
    \/ \E directory \in SessDirectories : CreateSession(directory)
    \/ \E directory \in SessDirectories : GetOrCreateSession(directory)
    \/ \E id \in SessIds : IncrementRefCount(id)
    \/ \E id \in SessIds : DecrementRefCount(id)
    \/ \E directory \in SessDirectories : RemoveInstanceDir(directory)

\* no sessions.toml yet: read_index gives the default index
SessInit ==
    /\ MgrIdle
    /\ HookIdle
    /\ MonIdle
    /\ FsIdle
    /\ DiskIdle
    /\ ProvIdle
    /\ MountIdle
    /\ IoIdle
    /\ SessIdle

SessSpec == SessInit /\ [][SessNext]_vars

\* the last call was decrement_ref_count on a session stored with a
\* ref_count of 0
C33_DecrementAtZero ==
    /\ sess_last.op = "decrement"
    /\ \E i \in DOMAIN sess_last.before :
           /\ sess_last.before[i].id = sess_last.id
           /\ sess_last.before[i].ref_count = 0

\* every stored ref_count is 1 plus the increments that succeeded (those of
\* get_or_create_session on an existing session included) minus the
\* decrements that succeeded
C33_Accounting ==
    \A i \in DOMAIN sess_index :
        sess_index[i].ref_count
            = 1 + sess_incs[sess_index[i].id] - sess_decs[sess_index[i].id]

\* C33 as stated: decrement_ref_count on a session whose stored ref_count is
\* 0 returns RefCountUnderflow and leaves the index unchanged, and the
\* stored ref_count is 1 plus the successful increments minus the successful
\* decrements.
C33_Original ==
    /\ C33_DecrementAtZero =>
           /\ sess_last.result = "RefCountUnderflow"
           /\ sess_index = sess_last.before
    /\ C33_Accounting

\* C33, amended: decrement_ref_count on a session whose stored ref_count is
\* 0 and whose instance directory exists returns RefCountUnderflow and
\* leaves the index unchanged; for a session whose instance directory is
\* gone it returns SessionNotFound and the record is removed.  The stored
\* ref_count is 1 plus the successful increments minus the successful
\* decrements.
C33_UnderflowLeavesIndex ==
    /\ C33_DecrementAtZero =>
           IF sess_last.dir_present
           THEN /\ sess_last.result = "RefCountUnderflow"
                /\ sess_index = sess_last.before
           ELSE /\ sess_last.result = "SessionNotFound"
                /\ \A i \in DOMAIN sess_index :
                       sess_index[i].id # sess_last.id
    /\ C33_Accounting

\* a decrement met a ref_count of 0 on a session that had gained and lost
\* references before, and the index is as it was
C33_Witness ==
    /\ C33_DecrementAtZero
    /\ sess_last.dir_present
    /\ sess_last.result = "RefCountUnderflow"
    /\ sess_index = sess_last.before
    /\ sess_incs[sess_last.id] > 0
    /\ sess_decs[sess_last.id] > 1
\* ------------------------------------- the deferred attempt (C34) and the
\* loop's invariant (C35)

\* a step of the Timeout arm whose shutdown attempt finds no writer, or a
\* writer whose receiver is gone, while no client is connected
C34_DeferredAttempt ==
    /\ AttemptStep
    /\ ~SendSucceeds
    /\ ref_count = 0

\* what a deferred attempt leaves of the deadlines and of shutdown_sent
C34_Deferred ==
    /\ ~shutdown_sent'
    /\ vm_input' = vm_input
    /\ hard_deadline' = IF hard_deadline = None
                        THEN Some(now + hard_timeout) ELSE hard_deadline
    /\ shutdown_deadline' = Some(now + SHUTDOWN_RETRY_MS)

\* C34 as stated: a shutdown attempt that finds no usable writer leaves the
\* loop running (Draining) with shutdown_sent false, sets hard_deadline to
\* now + HARD only if it was unset, and reschedules shutdown_deadline to
\* now + RETRY.
C34_Original ==
    [][C34_DeferredAttempt => (C34_Deferred /\ loop_state' = "running")]_vars

\* C34, amended: the same, except that the loop stays running only if the
\* hard deadline an earlier attempt set has not been reached; when it has,
\* the same wake-up force-exits after the retry was rescheduled.
C34_DeferredAttemptRetries ==
    [][C34_DeferredAttempt =>
           /\ C34_Deferred
           /\ loop_state' =
                  IF IsSome(hard_deadline) /\ now >= Unwrap(hard_deadline)
                  THEN "forced" ELSE "running"]_vars

\* a retry found no writer again: the hard deadline of the first attempt
\* was kept, the next retry is RETRY later, and the loop runs on
C34_Witness ==
    /\ last_event = "Timeout"
    /\ LoopRunning
    /\ ref_count = 0
    /\ ~SendSucceeds
    /\ ~shutdown_sent
    /\ IsSome(prev.hard_deadline)
    /\ hard_deadline = prev.hard_deadline
    /\ prev.at > Unwrap(attempt_at)
    /\ shutdown_deadline = Some(prev.at + SHUTDOWN_RETRY_MS)
    /\ prev.shutdown_deadline # shutdown_deadline
\* C35: in every reachable state of the event loop, driven by the events
\* of real connections (each Dec after the Inc of its connection),
\* shutdown_deadline set, hard_deadline set and shutdown_sent each imply
\* ref_count = 0, and shutdown_sent implies that shutdown_deadline is unset
\* and hard_deadline is set.
C35_DeadlinesOnlyAtZero ==
    /\ IsSome(shutdown_deadline) => ref_count = 0
    /\ IsSome(hard_deadline) => ref_count = 0
    /\ shutdown_sent =>
           /\ ref_count = 0
           /\ shutdown_deadline = None
           /\ IsSome(hard_deadline)

\* a client came and went, the loop received its Inc and then its Dec, and
\* the poweroff command has been sent
C35_Witness ==
    /\ shutdown_sent
    /\ ref_count = 0
    /\ IsSome(hard_deadline)
    /\ \E c \in Conns : recv_inc[c] = 1 /\ recv_dec[c] = 1
    /\ \A c \in Conns : recv_dec[c] <= recv_inc[c]
\* ------------------------------------- the list of writers (C36 and C37)

\* C36: no step removes from clients the writer of a client that is still
\* connected: a departure removes the departed client's own writer only,
\* whatever descriptor numbers the accepts, the broadcasts and the
\* departures have reused.
C36_OnlyOwnWriterRemoved ==
    [][\A c \in Conns :
           (ProcAlive /\ client_open[c] /\ Enrolled(clients, c))
               => Enrolled(clients', c)]_vars
\* no broadcast_status call is between its two locks
C37_BroadcastsComplete ==
    /\ bc_pc = "idle"
    /\ main_pc # "err_fanout"

\* C37: once the enrollment of a client and a broadcast_status(s) that ran
\* at the same time have both completed, the client, if it is still
\* connected, has been sent the `status:` line of s, by the fan-out or by
\* the replay.
C37_NeverMissesNewest ==
    \A c \in Conns :
        (/\ ProcAlive
         /\ conn_pc[c] \in {"reading", "waiting"}
         /\ client_open[c]
         /\ C37_BroadcastsComplete
         /\ latest_status # <<>>)
            => \E i \in 1 .. Len(out[c]) : out[c][i] = StatusLine(latest_status)
\* ------------------------------------------- the pid file and the lock

\* supervisor s is accepting clients on vm.sock
C38_Serving(s) == sup_pc[s] = "serving" /\ sock_file = Some(s)

\* C38: while a live supervisor is accepting clients on vm.sock and vm.pid
\* holds its pid, no step of another supervisor start for the project
\* overwrites or deletes vm.pid.
C38_ServingPidFileKept ==
    [][\A s, t \in Invokers :
           (/\ s # t
            /\ C38_Serving(s)
            /\ pid_file = Some(SupervisorPid(s))
            /\ sup_pc'[t] # sup_pc[t])
               => pid_file' = pid_file]_vars
\* ensure_manager: spawn_manager_process(..)? returns an error (the
\* supervisor binary is missing, current_exe or Command::spawn fails); the
\* File of the lock is dropped with the frame, vm.lock stays
InvSpawnFails(e) ==
    /\ inv_pc[e] = "spawn"
    /\ inv_pc' = [inv_pc EXCEPT ![e] = "spawn_failed"]
    /\ inv_lock' = [inv_lock EXCEPT ![e] = FALSE]
    /\ UNCHANGED <<pid_file, sock_file, lock_file, sup_pc, sup_guard>>
    /\ UNCHANGED <<loopVars, obsVars, supVars>>
    /\ UNCHANGED <<pending_at_accept, run_result, polls>>
    /\ UNCHANGED vmVars

SpawnNext ==
    \/ StartNext
    \/ \E e \in Invokers : InvSpawnFails(e)

\* ensure_manager with a spawn that can fail
SpawnSpec == StartInit /\ [][SpawnNext]_vars

\* C39: when ensure_manager has returned, by a successful connect, by the
\* timeout of the poll loop or by a failed spawn, the vm.lock it created is
\* gone.
C39_LockRemovedOnReturn ==
    \A e \in Invokers :
        inv_pc[e] \in {"done", "failed", "spawn_failed"}
            => lock_file # Some(InvokerPid(e))
\* ------------------------------------------- the identity in instance.toml

\* the identity a document holds
C40_Identity(lines) ==
    [id |-> from_str(lines).id, ssh_user |-> from_str(lines).ssh_user,
     sudo_password |-> from_str(lines).sudo_password]

\* C40: all the documents instance.toml has held, the one a start found and
\* those written since, carry one id, ssh_user and sudo_password, and, no
\* process of the model recording or clearing the address, one vm_ipv4: no
\* process regenerates the identity or writes a stale document over a
\* recorded vm_ipv4.
C40_IdentityNeverChanges ==
    \A d1, d2 \in toml_history :
        /\ C40_Identity(d1) = C40_Identity(d2)
        /\ from_str(d1).vm_ipv4 = from_str(d2).vm_ipv4
=============================================================================
